---- MODULE Spec2Model ----
(***************************************************************************)
(* Pack lifecycle of lex-intellectus-v2 (apps/server/packs): the offline   *)
(* updater (updater.py), snapshot installation (install_snapshot.py) and   *)
(* delta application (delta.py), over a model of the packs/ directory.     *)
(*                                                                         *)
(* A file content is a pair <<data, length>>, a pack-relative path is a    *)
(* sequence of path components, and a directory is the set of its regular  *)
(* files plus its manifest.json / manifest.sig (or the delta manifest).    *)
(* SHA-256 and Ed25519 are modelled as injective constructors: a digest    *)
(* names the bytes it was computed from, a signature names the key and the *)
(* canonical manifest it was made over.                                    *)
(***************************************************************************)
EXTENDS Integers, Sequences, FiniteSets, TLC

\* Number of events of a behaviour: the API calls (run_once, recover_on_startup,
\* install_snapshot, apply_delta) it starts, the process kills it contains and
\* the changes of the remote.
MaxOps == 4

\* Number of calls that two concurrent processes start between them.
MaxConcOps == 2

\* Number of events of a behaviour on a remote whose snapshot was tampered with.
MaxPackOps == 3

\* ------------------------------------------------------------------------
\* hashing.py / signing.py
\* ------------------------------------------------------------------------
sha256_file(content) == <<"sha256", content>>

st_size(content) == content[2]

file_entry(f) ==
    [path |-> f.path, size |-> st_size(f.content), sha256 |-> sha256_file(f.content)]

canonical_manifest_sha256(manifest) == <<"sha256", manifest>>

sign_manifest(priv, manifest) == <<"sig", priv, manifest>>

\* The public key "pub" belongs to the private key "priv"; "evil" is any other key.
verify_manifest(pub, manifest, sig) ==
    /\ pub = "pub"
    /\ sig = <<"sig", "priv", manifest>>

\* ------------------------------------------------------------------------
\* Directories
\* ------------------------------------------------------------------------
NoManifest == [version |-> "none", files |-> {}]

NoSha == <<"sha256", NoManifest>>

NoDeltaManifest ==
    [from |-> NoSha, to |-> NoSha, add_or_replace |-> {}, delete |-> {}, present |-> FALSE]

NoSig == <<"sig", "none", NoManifest>>

NoDeltaSig == <<"sig", "none", NoDeltaManifest>>

NoDir ==
    [kind |-> "none", files |-> {}, manifest |-> NoManifest, sig |-> NoSig,
     dmanifest |-> NoDeltaManifest, dsig |-> NoDeltaSig]

EmptyDir(kind) == [NoDir EXCEPT !.kind = kind]

File(path, content) == [path |-> path, content |-> content]

HasFile(dir, path) == \E f \in dir.files : f.path = path

ContentAt(dir, path) == (CHOOSE f \in dir.files : f.path = path).content

\* A path that holds a directory instead of a regular file.
IsADirectory == <<"<dir>", 0>>

\* fp.exists() and fp.is_file()
is_file(dir, path) == HasFile(dir, path) /\ ContentAt(dir, path) # IsADirectory

\* shutil.copy2(src, dst): dst is created or replaced.
PutFile(files, f) == {g \in files : g.path # f.path} \cup {f}

RemoveFile(files, path) == {g \in files : g.path # path}

\* ------------------------------------------------------------------------
\* build_snapshot.py
\* ------------------------------------------------------------------------
\* payload: the files under <snapshot>/payload, by their path below payload/.
build_snapshot(payload, version, priv) ==
    LET files == {File(<<"payload">> \o f.path, f.content) : f \in payload}
        manifest == [version |-> version, files |-> {file_entry(f) : f \in files}]
    IN  [kind |-> "remote", files |-> files, manifest |-> manifest,
         sig |-> sign_manifest(priv, manifest),
         dmanifest |-> NoDeltaManifest, dsig |-> NoDeltaSig]

\* ------------------------------------------------------------------------
\* delta.py: build_delta, verify_delta
\* ------------------------------------------------------------------------
build_delta(from_snapshot, to_snapshot, priv) ==
    LET fm == from_snapshot.manifest.files
        tm == to_snapshot.manifest.files
        add_or_replace ==
            {e \in tm : ~ \E o \in fm : o.path = e.path /\ o.sha256 = e.sha256}
        delete == {o.path : o \in {o \in fm : ~ \E e \in tm : e.path = o.path}}
        dm == [from |-> canonical_manifest_sha256(from_snapshot.manifest),
               to |-> canonical_manifest_sha256(to_snapshot.manifest),
               add_or_replace |-> add_or_replace, delete |-> delete,
               present |-> TRUE]
    IN  [kind |-> "remote",
         files |-> {f \in to_snapshot.files : \E e \in add_or_replace : e.path = f.path},
         manifest |-> NoManifest, sig |-> NoSig,
         dmanifest |-> dm, dsig |-> sign_manifest(priv, dm)]

\* The first check of a verification that fails on the entries, in the order the
\* code makes them on an entry: exists, size, sha256.
EntryFailure(dir, entries) ==
    IF \E e \in entries : ~ is_file(dir, e.path) THEN "missing_file"
    ELSE IF \E e \in entries : st_size(ContentAt(dir, e.path)) # e.size
         THEN "size_mismatch"
    ELSE IF \E e \in entries : sha256_file(ContentAt(dir, e.path)) # e.sha256
         THEN "sha_mismatch"
    ELSE "ok"

\* The outcome of a call is "ok" or names the exception it raises.  The exceptions
\* that are a ValueError (raise ValueError(...) in the code; binascii.Error and
\* JSONDecodeError are subclasses); every other one is an OSError (a file that is
\* not there, an I/O error) or the RuntimeError of the injected crash.
IsValueError(exception) ==
    exception \in {"no_active", "active_dir_missing", "remote_artifact_missing",
                   "bad_signature", "missing_file", "size_mismatch", "sha_mismatch",
                   "manifest_sha_mismatch", "from_mismatch", "to_mismatch",
                   "file_set_mismatch", "payload_missing"}

\* verify_delta, lines 118-156
verify_delta(delta_dir, pub) ==
    IF ~ delta_dir.dmanifest.present \/ delta_dir.dsig = NoDeltaSig THEN "manifest_missing"
    ELSE IF ~ verify_manifest(pub, delta_dir.dmanifest, delta_dir.dsig) THEN "bad_signature"
    ELSE EntryFailure(delta_dir, delta_dir.dmanifest.add_or_replace)

\* ------------------------------------------------------------------------
\* install_snapshot.py: verify_snapshot
\* ------------------------------------------------------------------------
\* A verification that trusts the size of a file and does not hash it.
verify_snapshot_unhashed(snapshot_dir, pub) ==
    IF snapshot_dir.manifest = NoManifest \/ snapshot_dir.sig = NoSig THEN "manifest_missing"
    ELSE IF ~ verify_manifest(pub, snapshot_dir.manifest, snapshot_dir.sig)
         THEN "bad_signature"
    ELSE IF \E e \in snapshot_dir.manifest.files : ~ is_file(snapshot_dir, e.path)
         THEN "missing_file"
    ELSE IF \E e \in snapshot_dir.manifest.files :
               st_size(ContentAt(snapshot_dir, e.path)) # e.size
         THEN "size_mismatch"
    ELSE "ok"

\* verify_snapshot, lines 28-62
verify_snapshot(snapshot_dir, pub) ==
    IF snapshot_dir.manifest = NoManifest \/ snapshot_dir.sig = NoSig THEN "manifest_missing"
    ELSE IF ~ verify_manifest(pub, snapshot_dir.manifest, snapshot_dir.sig)
         THEN "bad_signature"
    ELSE EntryFailure(snapshot_dir, snapshot_dir.manifest.files)

\* delta.py _pack_rel_from_manifest_path: strip the leading payload/ component.
_pack_rel_from_manifest_path(p) ==
    IF Len(p) > 0 /\ Head(p) = "payload" THEN Tail(p) ELSE p

\* delta.py _list_pack_payload_files: every file of the pack but the manifest pair,
\* which the model keeps apart from files.
_list_pack_payload_files(pack) == {f.path : f \in pack.files}

\* ------------------------------------------------------------------------
\* The remote channel directory and the data directory the updater is given
\* ------------------------------------------------------------------------
Payload0 == {File(<<"a">>, <<"a0", 1>>)}

Payload1 == {File(<<"a">>, <<"a1", 1>>), File(<<"b">>, <<"b1", 1>>), File(<<"d">>, <<"d1", 2>>)}

Payload2 == {File(<<"a">>, <<"a2", 1>>), File(<<"c">>, <<"c1", 3>>), File(<<"d">>, <<"d1", 2>>)}

Snapshot0 == build_snapshot(Payload0, "v0", "priv")

Snapshot1 == build_snapshot(Payload1, "v1", "priv")

Snapshot2 == build_snapshot(Payload2, "v2", "priv")

Delta12 == build_delta(Snapshot1, Snapshot2, "priv")

\* What the remote directory holds when the updater is constructed.  Later the
\* publisher may withdraw v2 ("withdrawn": latest.json names v1 again).
Scenarios ==
    {"ok", "no_latest", "snapshot_absent", "snapshot_bad_sig", "snapshot_sha_mismatch",
     "snapshot_size_mismatch", "snapshot_missing_file", "snapshot_not_latest",
     "delta_absent", "delta_bad_sig", "delta_sha_mismatch", "delta_from_mismatch",
     "delta_to_snapshot_absent"}

\* What may be done to snapshots/v2 after it was built and signed: to a payload
\* file (removed, replaced by a directory, resized, rewritten with bytes of the
\* same length), to manifest.json with manifest.sig kept (another version, an
\* entry with another sha256 or size, an entry removed, an entry added, an entry
\* adapted to a rewritten file), to manifest.sig (made with another key), and a
\* file added under payload/ that the manifest does not list.
Tampers ==
    [tamper_missing_a |-> [kind |-> "missing", path |-> "a"],
     tamper_missing_c |-> [kind |-> "missing", path |-> "c"],
     tamper_missing_d |-> [kind |-> "missing", path |-> "d"],
     tamper_directory_a |-> [kind |-> "directory", path |-> "a"],
     tamper_directory_c |-> [kind |-> "directory", path |-> "c"],
     tamper_directory_d |-> [kind |-> "directory", path |-> "d"],
     tamper_resized_a |-> [kind |-> "resized", path |-> "a"],
     tamper_resized_c |-> [kind |-> "resized", path |-> "c"],
     tamper_resized_d |-> [kind |-> "resized", path |-> "d"],
     tamper_rewritten_a |-> [kind |-> "rewritten", path |-> "a"],
     tamper_rewritten_c |-> [kind |-> "rewritten", path |-> "c"],
     tamper_rewritten_d |-> [kind |-> "rewritten", path |-> "d"],
     tamper_manifest_version |-> [kind |-> "manifest_version", path |-> "a"],
     tamper_manifest_sha |-> [kind |-> "manifest_sha", path |-> "a"],
     tamper_manifest_size |-> [kind |-> "manifest_size", path |-> "c"],
     tamper_manifest_entry_removed |-> [kind |-> "manifest_entry_removed", path |-> "d"],
     tamper_manifest_entry_added |-> [kind |-> "manifest_entry_added", path |-> "e"],
     tamper_manifest_adapted |-> [kind |-> "manifest_adapted", path |-> "a"],
     tamper_signature_other_key |-> [kind |-> "signature_other_key", path |-> "a"],
     tamper_unlisted_file |-> [kind |-> "unlisted_file", path |-> "e"]]

TamperNames == DOMAIN Tampers

\* The manifest with the entry of path p replaced by the entries in es.
WithEntries(manifest, p, es) ==
    [manifest EXCEPT !.files = {e \in @ : e.path # p} \cup es]

\* The snapshot directory after the tamper t.
Tampered(snapshot, t) ==
    LET p == <<"payload", t.path>>
        old == IF HasFile(snapshot, p) THEN ContentAt(snapshot, p) ELSE <<"e1", 1>>
        zz == <<"zz", st_size(old)>>
    IN  CASE t.kind = "missing" -> [snapshot EXCEPT !.files = RemoveFile(@, p)]
          [] t.kind = "directory" ->
                [snapshot EXCEPT !.files = PutFile(@, File(p, IsADirectory))]
          [] t.kind = "resized" ->
                [snapshot EXCEPT !.files = PutFile(@, File(p, <<old[1], st_size(old) + 1>>))]
          [] t.kind = "rewritten" -> [snapshot EXCEPT !.files = PutFile(@, File(p, zz))]
          [] t.kind = "manifest_version" -> [snapshot EXCEPT !.manifest.version = "v2x"]
          [] t.kind = "manifest_sha" ->
                [snapshot EXCEPT !.manifest =
                    WithEntries(@, p, {[path |-> p, size |-> st_size(old),
                                        sha256 |-> sha256_file(zz)]})]
          [] t.kind = "manifest_size" ->
                [snapshot EXCEPT !.manifest =
                    WithEntries(@, p, {[path |-> p, size |-> st_size(old) + 1,
                                        sha256 |-> sha256_file(old)]})]
          [] t.kind = "manifest_entry_removed" ->
                [snapshot EXCEPT !.manifest = WithEntries(@, p, {})]
          [] t.kind = "manifest_entry_added" ->
                [snapshot EXCEPT !.manifest = WithEntries(@, p, {file_entry(File(p, old))}),
                                 !.files = PutFile(@, File(p, old))]
          [] t.kind = "manifest_adapted" ->
                [snapshot EXCEPT !.manifest = WithEntries(@, p, {file_entry(File(p, zz))}),
                                 !.files = PutFile(@, File(p, zz))]
          [] t.kind = "signature_other_key" ->
                [snapshot EXCEPT !.sig = sign_manifest("evil", snapshot.manifest)]
          [] t.kind = "unlisted_file" -> [snapshot EXCEPT !.files = PutFile(@, File(p, old))]

\* <remote>/<channel>/snapshots/<name>
RemoteSnapshot(sc, name) ==
    IF name = "v1" THEN Snapshot1
    ELSE IF sc \in TamperNames THEN Tampered(Snapshot2, Tampers[sc])
    ELSE IF sc \in {"snapshot_absent", "delta_to_snapshot_absent"} THEN NoDir
    ELSE IF sc = "snapshot_bad_sig"
         THEN [Snapshot2 EXCEPT !.manifest = [Snapshot2.manifest EXCEPT !.version = "v2x"]]
    ELSE IF sc = "snapshot_sha_mismatch"
         THEN [Snapshot2 EXCEPT !.files = PutFile(@, File(<<"payload", "a">>, <<"zz", 1>>))]
    ELSE IF sc = "snapshot_size_mismatch"
         THEN [Snapshot2 EXCEPT !.files = PutFile(@, File(<<"payload", "a">>, <<"a2", 2>>))]
    ELSE IF sc = "snapshot_missing_file"
         THEN [Snapshot2 EXCEPT !.files = RemoveFile(@, <<"payload", "c">>)]
    ELSE Snapshot2

\* <remote>/<channel>/deltas/v1__v2
RemoteDelta(sc) ==
    IF sc = "delta_absent" THEN NoDir
    ELSE IF sc = "delta_bad_sig"
         THEN [Delta12 EXCEPT !.dsig = sign_manifest("evil", Delta12.dmanifest)]
    ELSE IF sc = "delta_sha_mismatch"
         THEN [Delta12 EXCEPT !.files = PutFile(@, File(<<"payload", "a">>, <<"zz", 1>>))]
    ELSE IF sc = "delta_from_mismatch" THEN build_delta(Snapshot0, Snapshot2, "priv")
    ELSE Delta12

\* <remote>/<channel>/latest.json
Latest(sc) ==
    [present |-> sc # "no_latest",
     latest_version |-> IF sc = "withdrawn" THEN "v1" ELSE "v2",
     snapshot_path |-> IF sc = "withdrawn" THEN "v1" ELSE "v2",
     to_manifest_sha256 |->
         IF sc = "snapshot_not_latest"
         THEN canonical_manifest_sha256([Snapshot2.manifest EXCEPT !.version = "v3"])
         ELSE IF sc = "withdrawn" THEN canonical_manifest_sha256(Snapshot1.manifest)
         ELSE canonical_manifest_sha256(Snapshot2.manifest),
     delta |-> sc \in {"ok", "delta_absent", "delta_bad_sig", "delta_sha_mismatch",
                       "delta_from_mismatch", "delta_to_snapshot_absent"},
     delta_from_manifest_sha256 |-> canonical_manifest_sha256(Snapshot1.manifest)]

\* A PackInstall: the payload at the pack root plus manifest.json and manifest.sig.
PackInstall(snapshot) ==
    [kind |-> "staging",
     files |-> {File(Tail(f.path), f.content) : f \in snapshot.files},
     manifest |-> snapshot.manifest, sig |-> snapshot.sig,
     dmanifest |-> NoDeltaManifest, dsig |-> NoDeltaSig]

\* ------------------------------------------------------------------------
\* updater.py: the state of the packs/ directory and of the running calls
\* ------------------------------------------------------------------------
Procs == {1, 2}

\* Directory names are staging_<timestamp> and cache/cache_<type>_<timestamp>; the
\* model numbers them in the order of their creation.  A call creates at most two.
DirIds == 1 .. (2 * MaxOps + 1)

VARIABLES
    scenario,   \* what the remote directory holds now
    initial,    \* what the data directory held at first
    lock,       \* packs/lock exists
    active,     \* content of packs/ACTIVE.txt: a directory name, 0 when the file is absent
    stateFile,  \* content of packs/state.json
    dirs,       \* the directories under packs/ and packs/cache
    nextDir,    \* the next timestamp
    proc,       \* the calls in progress, one per process: position and local variables
    ops,        \* calls started and processes killed so far
    hist,       \* per process: what the current or last call did (observation only)
    call        \* a call of a function outside the pack lifecycle: arguments, locals, result

\* The variables of the pack lifecycle.
packVars == <<scenario, initial, lock, active, stateFile, dirs, nextDir, proc, ops, hist>>

vars == <<scenario, initial, lock, active, stateFile, dirs, nextDir, proc, ops, hist, call>>

\* No such call is made.
NoCall == [fn |-> "none"]

\* A state dict.  Keys the code never reads back (channel, trigger, started_at_utc,
\* from/to_manifest_sha256) are left out; 0 stands for a key that is absent or None.
StateRec(state) ==
    [state |-> state, plan_type |-> "none", active_before |-> 0, staging_dir |-> 0,
     cache_path |-> 0, error |-> "none"]

\* state.json is absent ("ABSENT"), does not parse ("GARBAGE"), or holds a state dict.
\* _load_state, lines 113-119.
_load_state(file) ==
    IF file.state = "ABSENT" THEN StateRec("IDLE")
    ELSE IF file.state = "GARBAGE"
         THEN [StateRec("FAILED_RETRYABLE") EXCEPT !.error = "state_parse"]
    ELSE file

IdleProc ==
    [pc |-> "idle", op |-> "none", fault |-> FALSE, state |-> StateRec("IDLE"),
     plan |-> "unset", cache |-> 0, staging |-> 0, active_pack |-> 0,
     to_snapshot |-> FALSE, snapshot |-> "none", exc |-> "none", copied |-> 0]

\* What is remembered of the call before the current one.
NoPrev ==
    [op |-> "none", result |-> "none", writes |-> 0, switched |-> 0, recorded |-> 0,
     startDirs |-> {}]

\* The observation record of a call: its name and argument, its result ("none"
\* while it runs), ACTIVE, the persisted state and the directories at its start,
\* how often it gave ACTIVE a new value and under which persisted state, the
\* install its apply step switched ACTIVE to, whether _verify has succeeded, the
\* active_before it recorded, and how far the caller is in the call sequence of
\* tests/test_updater_crash.py.
NoHist ==
    [op |-> "none", arg |-> "none", result |-> "none", startActive |-> 0,
     startState |-> "IDLE", startDirs |-> {}, writes |-> 0, activeIn |-> {},
     switched |-> 0, verified |-> FALSE, recorded |-> 0, script |-> 0, prev |-> NoPrev]

\* The data directory the updater is constructed on: empty, or holding one
\* PackInstall (of v0, which no delta starts from, or of v1), and in one case a
\* state.json that does not parse.  A fault of the remote
\* snapshot is met from v0 (snapshot plan), a fault of the remote delta from v1.
Initials(sc) ==
    IF sc = "ok" THEN {"empty", "v0", "v1", "v0_bad_state"}
    ELSE IF sc \in {"snapshot_absent", "snapshot_bad_sig", "snapshot_sha_mismatch",
                    "snapshot_size_mismatch", "snapshot_missing_file",
                    "snapshot_not_latest"}
         THEN {"v0"}
    ELSE {"v1"}

\* OfflineUpdater.__init__ creates packs/ and packs/cache and touches nothing else.
Constructed ==
    /\ lock = FALSE
    /\ active = IF initial = "empty" THEN 0 ELSE 1
    /\ stateFile = StateRec(IF initial = "v0_bad_state" THEN "GARBAGE" ELSE "ABSENT")
    /\ dirs = [d \in DirIds |->
                 IF d = 1 /\ initial \in {"v0", "v0_bad_state"} THEN PackInstall(Snapshot0)
                 ELSE IF d = 1 /\ initial = "v1" THEN PackInstall(Snapshot1)
                 ELSE NoDir]
    /\ nextDir = IF initial = "empty" THEN 1 ELSE 2
    /\ proc = [p \in Procs |-> IdleProc]
    /\ ops = 0
    /\ hist = [p \in Procs |-> NoHist]

Init ==
    /\ scenario \in Scenarios
    /\ initial \in Initials(scenario)
    /\ Constructed
    /\ call = NoCall

\* ---- control flow helpers ----------------------------------------------
Goto(p, label) == proc' = [proc EXCEPT ![p].pc = label]

\* The directories that exist.
Existing(ds) == {d \in DirIds : ds[d].kind # "none"}

\* tests/test_updater_crash.py main, lines 74-184: install_snapshot(v1) on an empty
\* data directory, run_once(crash_mid_copy) that raises, recover_on_startup,
\* run_once.  The position reached when the call (name, arg) starts after h.
ScriptStep(h, name, arg) ==
    IF h.script = 0 /\ ops = 0 /\ initial = "empty" /\ scenario = "ok"
          /\ name = "install_snapshot" /\ arg = "v1" THEN 1
    ELSE IF h.script = 1 /\ h.result = "ok"
               /\ name = "run_once" /\ arg = "crash_mid_copy" THEN 2
    ELSE IF h.script = 2 /\ h.result \notin {"none", "ok", "busy", "killed"}
               /\ name = "recover" THEN 3
    ELSE IF h.script = 3 /\ h.result = "ok" /\ name = "run_once" /\ arg = "none" THEN 4
    ELSE 0

\* The observation record of a call that starts.
StartHist(p, name, arg, result) ==
    [NoHist EXCEPT !.op = name, !.arg = arg, !.result = result,
                   !.startActive = active,
                   !.startState = _load_state(stateFile).state,
                   !.startDirs = Existing(dirs),
                   !.script = ScriptStep(hist[p], name, arg),
                   !.prev = [op |-> hist[p].op, result |-> hist[p].result,
                             writes |-> hist[p].writes, switched |-> hist[p].switched,
                             recorded |-> hist[p].recorded,
                             startDirs |-> hist[p].startDirs]]

\* A call starts: one more call, and the observation record starts over.
Begin(p, name, arg) ==
    /\ proc[p].pc = "idle"
    /\ ops < MaxOps
    /\ ops' = ops + 1
    /\ hist' = [hist EXCEPT ![p] = StartHist(p, name, arg, "none")]

\* The call returns (result "ok") or raises to its caller (the result names the
\* exception).
Finish(p, result) ==
    /\ proc' = [proc EXCEPT ![p] = IdleProc]
    /\ hist' = [hist EXCEPT ![p].result = result]

\* An exception inside run_once's try block reaches its handlers; the other calls
\* have none and the exception leaves the call.
Raise(p, exception) ==
    IF proc[p].op = "run_once"
    THEN /\ proc' = [proc EXCEPT ![p].pc = "ro_except", ![p].exc = exception]
         /\ UNCHANGED hist
    ELSE Finish(p, exception)

\* _save_state: state.json is replaced atomically (tmp + os.replace).
_save_state(state) == stateFile' = state

\* _set_active_name_atomic, lines 143-148; ACTIVE.prev is written and never read.
_set_active_name_atomic(new_name) == active' = new_name

\* _cleanup_dir, lines 158-160.
_cleanup_dir(ds, d) == IF d # 0 THEN [ds EXCEPT ![d] = NoDir] ELSE ds

\* Observation: process p writes new_name to ACTIVE, in the switch of an apply
\* step or in the recovery.
NoteActive(p, new_name, isSwitch) ==
    hist' = [hist EXCEPT ![p].writes = @ + (IF new_name # active THEN 1 ELSE 0),
                         ![p].activeIn = @ \cup {<<stateFile.state, hist[p].verified>>},
                         ![p].switched = IF isSwitch THEN new_name ELSE @]

\* ---- recover_on_startup, lines 204-229 ----------------------------------
\* Called on its own, or as the first statement of run_once's try block.
recover_on_startup_call(p) ==
    /\ Begin(p, "recover", "none")
    /\ proc' = [proc EXCEPT ![p].pc = "rec_load", ![p].op = "recover"]
    /\ UNCHANGED <<call, scenario, initial, lock, active, stateFile, dirs, nextDir>>

RecoverReturn(p) ==
    IF proc[p].op = "run_once" THEN Goto(p, "ro_checking") /\ UNCHANGED hist
    ELSE Finish(p, "ok")

\* lines 205-207
rec_load(p) ==
    /\ proc[p].pc = "rec_load"
    /\ IF _load_state(stateFile).state = "IDLE"
       THEN RecoverReturn(p)
       ELSE /\ proc' = [proc EXCEPT ![p].pc = "rec_active",
                                    ![p].state = _load_state(stateFile)]
            /\ UNCHANGED hist
    /\ UNCHANGED <<call, scenario, initial, lock, active, stateFile, dirs, nextDir, ops>>

\* lines 210-216: put ACTIVE back to the recorded active_before.
rec_active(p) ==
    /\ proc[p].pc = "rec_active"
    /\ IF proc[p].state.active_before # 0 /\ active # 0
          /\ active # proc[p].state.active_before
       THEN /\ _set_active_name_atomic(proc[p].state.active_before)
            /\ NoteActive(p, proc[p].state.active_before, FALSE)
       ELSE UNCHANGED <<active, hist>>
    /\ Goto(p, "rec_staging")
    /\ UNCHANGED <<call, scenario, initial, lock, stateFile, dirs, nextDir, ops>>

\* lines 219-221
rec_staging(p) ==
    /\ proc[p].pc = "rec_staging"
    /\ dirs' = _cleanup_dir(dirs, proc[p].state.staging_dir)
    /\ Goto(p, "rec_cache")
    /\ UNCHANGED <<call, scenario, initial, lock, active, stateFile, nextDir, ops, hist>>

\* A recovery that leaves the cache directory of the failed run on disk.
rec_cache_kept(p) ==
    /\ proc[p].pc = "rec_cache"
    /\ Goto(p, "rec_save")
    /\ UNCHANGED <<call, scenario, initial, lock, active, stateFile, dirs, nextDir, ops, hist>>

\* lines 224-226
rec_cache(p) ==
    /\ proc[p].pc = "rec_cache"
    /\ dirs' = _cleanup_dir(dirs, proc[p].state.cache_path)
    /\ Goto(p, "rec_save")
    /\ UNCHANGED <<call, scenario, initial, lock, active, stateFile, nextDir, ops, hist>>

\* A recovery that cleans up and does not write the state back.
rec_save_not_persisted(p) ==
    /\ proc[p].pc = "rec_save"
    /\ RecoverReturn(p)
    /\ UNCHANGED <<call, scenario, initial, lock, active, stateFile, dirs, nextDir, ops>>

\* lines 228-229
rec_save(p) ==
    /\ proc[p].pc = "rec_save"
    /\ _save_state([proc[p].state EXCEPT !.state = "IDLE"])
    /\ RecoverReturn(p)
    /\ UNCHANGED <<call, scenario, initial, lock, active, dirs, nextDir, ops>>

\* ---- run_once, lines 231-299 --------------------------------------------
\* A lock file opened without O_EXCL: the open succeeds when the file exists.
_acquire_lock_not_exclusive(p, crash_mid_copy) ==
    /\ Begin(p, "run_once", IF crash_mid_copy THEN "crash_mid_copy" ELSE "none")
    /\ lock' = TRUE
    /\ proc' = [proc EXCEPT ![p].pc = "rec_load", ![p].op = "run_once",
                            ![p].fault = crash_mid_copy]
    /\ UNCHANGED <<call, scenario, initial, active, stateFile, dirs, nextDir>>

\* _acquire_lock, lines 95-102, called before the try block: O_CREAT | O_EXCL
\* creates packs/lock or fails.
_acquire_lock(p, crash_mid_copy) ==
    /\ Begin(p, "run_once", IF crash_mid_copy THEN "crash_mid_copy" ELSE "none")
    /\ ~ lock
    /\ lock' = TRUE
    /\ proc' = [proc EXCEPT ![p].pc = "rec_load", ![p].op = "run_once",
                            ![p].fault = crash_mid_copy]
    /\ UNCHANGED <<call, scenario, initial, active, stateFile, dirs, nextDir>>

\* lines 99-100: "Updater lock already held" leaves run_once before the try block.
lock_already_held(p) ==
    /\ proc[p].pc = "idle"
    /\ ops < MaxOps
    /\ ops' = ops + 1
    /\ lock
    /\ hist' = [hist EXCEPT ![p] = StartHist(p, "run_once", "none", "busy")]
    /\ UNCHANGED <<call, scenario, initial, lock, active, stateFile, dirs, nextDir, proc>>

\* lines 235-236
ro_checking(p) ==
    /\ proc[p].pc = "ro_checking"
    /\ _save_state(StateRec("CHECKING"))
    /\ proc' = [proc EXCEPT ![p].pc = "ro_check", ![p].state = StateRec("CHECKING")]
    /\ UNCHANGED <<call, scenario, initial, lock, active, dirs, nextDir, ops, hist>>

\* _read_active_name + _get_active_pack_dir + _active_manifest_sha, lines 127-153:
\* "ok" or the exception.
ActivePackStatus(a, ds) ==
    IF a = 0 THEN "no_active"
    ELSE IF ds[a].kind = "none" THEN "active_dir_missing"
    ELSE IF ds[a].manifest = NoManifest THEN "active_manifest_missing"
    ELSE "ok"

\* A plan selection that takes the offered delta without comparing its
\* from_manifest_sha256 with the active manifest.
check_updates_any_delta(a, ds, sc) ==
    IF ActivePackStatus(a, ds) # "ok" THEN ActivePackStatus(a, ds)
    ELSE IF ~ Latest(sc).present THEN "latest_missing"
    ELSE IF canonical_manifest_sha256(ds[a].manifest) = Latest(sc).to_manifest_sha256
         THEN "none"
    ELSE IF Latest(sc).delta THEN "delta"
    ELSE "snapshot"

\* check_updates, lines 165-202: the plan type, "none" for no plan, or the exception.
check_updates(a, ds, sc) ==
    IF ActivePackStatus(a, ds) # "ok" THEN ActivePackStatus(a, ds)
    ELSE IF ~ Latest(sc).present THEN "latest_missing"
    ELSE IF canonical_manifest_sha256(ds[a].manifest) = Latest(sc).to_manifest_sha256
         THEN "none"
    ELSE IF Latest(sc).delta
            /\ Latest(sc).delta_from_manifest_sha256 = canonical_manifest_sha256(ds[a].manifest)
         THEN "delta"
    ELSE "snapshot"

\* line 238
ro_check(p) ==
    /\ proc[p].pc = "ro_check"
    /\ LET r == check_updates(active, dirs, scenario)
       IN  IF r \notin {"none", "snapshot", "delta"} THEN Raise(p, r)
           ELSE /\ proc' = [proc EXCEPT ![p].plan = r,
                               ![p].pc = IF r = "none" THEN "ro_uptodate" ELSE "ro_plan"]
                /\ UNCHANGED hist
    /\ UNCHANGED <<call, scenario, initial, lock, active, stateFile, dirs, nextDir, ops>>

\* lines 239-241
ro_uptodate(p) ==
    /\ proc[p].pc = "ro_uptodate"
    /\ _save_state(StateRec("IDLE"))
    /\ proc' = [proc EXCEPT ![p].pc = "ro_release", ![p].exc = "none"]
    /\ UNCHANGED <<call, scenario, initial, lock, active, dirs, nextDir, ops, hist>>

\* lines 243-255: the plan and active_before are recorded.
ro_plan(p) ==
    /\ proc[p].pc = "ro_plan"
    /\ IF active = 0
       THEN Raise(p, "no_active") /\ UNCHANGED stateFile
       ELSE LET st == [proc[p].state EXCEPT !.plan_type = proc[p].plan,
                                           !.active_before = active,
                                           !.staging_dir = 0, !.cache_path = 0,
                                           !.error = "none"]
            IN  /\ _save_state(st)
                /\ proc' = [proc EXCEPT ![p].pc = "ro_downloading", ![p].state = st]
                /\ hist' = [hist EXCEPT ![p].recorded = active]
    /\ UNCHANGED <<call, scenario, initial, lock, active, dirs, nextDir, ops>>

\* A state transition of run_once: state["state"] = s; self._save_state(state).
Transition(p, from, s, to) ==
    /\ proc[p].pc = from
    /\ _save_state([proc[p].state EXCEPT !.state = s])
    /\ proc' = [proc EXCEPT ![p].pc = to, ![p].state.state = s]
    /\ UNCHANGED <<call, scenario, initial, lock, active, dirs, nextDir, ops, hist>>

\* lines 258-259
ro_downloading(p) == Transition(p, "ro_downloading", "DOWNLOADING", "ro_download")

\* The artifact of the plan: snapshot_path, or delta.path, of latest.json.
Artifact(sc, plan_type) ==
    IF plan_type = "snapshot" THEN RemoteSnapshot(sc, Latest(sc).snapshot_path)
    ELSE RemoteDelta(sc)

\* _download, lines 304-312: the artifact is looked up and the cache directory named.
ro_download(p) ==
    /\ proc[p].pc = "ro_download"
    /\ IF Artifact(scenario, proc[p].plan).kind = "none"
       THEN Raise(p, "remote_artifact_missing") /\ UNCHANGED <<dirs, nextDir>>
       ELSE /\ dirs' = [dirs EXCEPT ![nextDir] = EmptyDir("cache")]
            /\ nextDir' = nextDir + 1
            /\ proc' = [proc EXCEPT ![p].pc = "ro_copy", ![p].cache = nextDir]
            /\ UNCHANGED hist
    /\ UNCHANGED <<call, scenario, initial, lock, active, stateFile, ops>>

\* _copy_tree, lines 441-449, called at line 314: the copy completes ...
ro_copy(p) ==
    /\ proc[p].pc = "ro_copy"
    /\ dirs' = [dirs EXCEPT ![proc[p].cache] =
                  [Artifact(scenario, proc[p].plan) EXCEPT !.kind = "cache"]]
    /\ Goto(p, "ro_cache_path")
    /\ UNCHANGED <<call, scenario, initial, lock, active, stateFile, nextDir, ops, hist>>

\* ... or an I/O error (OSError) ends it and leaves a partial copy.
ro_copy_io_error(p) ==
    /\ proc[p].pc = "ro_copy"
    /\ Raise(p, "io_error")
    /\ UNCHANGED <<call, scenario, initial, lock, active, stateFile, dirs, nextDir, ops>>

\* lines 261-262
ro_cache_path(p) ==
    /\ proc[p].pc = "ro_cache_path"
    /\ _save_state([proc[p].state EXCEPT !.cache_path = proc[p].cache])
    /\ proc' = [proc EXCEPT ![p].pc = "ro_staging", ![p].state.cache_path = proc[p].cache]
    /\ UNCHANGED <<call, scenario, initial, lock, active, dirs, nextDir, ops, hist>>

\* lines 266-268; _stage returns the cache directory.
ro_staging(p) == Transition(p, "ro_staging", "STAGING", "ro_verifying")

\* lines 271-272
ro_verifying(p) == Transition(p, "ro_verifying", "VERIFYING", "ro_verify")

\* _verify, lines 320-339.
_verify(plan_type, staged_artifact, sc) ==
    IF plan_type = "snapshot"
    THEN IF verify_snapshot(staged_artifact, "pub") # "ok"
         THEN verify_snapshot(staged_artifact, "pub")
         ELSE IF canonical_manifest_sha256(staged_artifact.manifest)
                     # Latest(sc).to_manifest_sha256
              THEN "manifest_sha_mismatch" ELSE "ok"
    ELSE IF verify_delta(staged_artifact, "pub") # "ok"
         THEN verify_delta(staged_artifact, "pub")
         ELSE IF staged_artifact.dmanifest.to # Latest(sc).to_manifest_sha256
              THEN "manifest_sha_mismatch" ELSE "ok"

\* line 273
ro_verify(p) ==
    /\ proc[p].pc = "ro_verify"
    /\ LET r == _verify(proc[p].plan, dirs[proc[p].cache], scenario)
       IN  IF r # "ok" THEN Raise(p, r)
           ELSE /\ Goto(p, "ro_applying")
                /\ hist' = [hist EXCEPT ![p].verified = TRUE]
    /\ UNCHANGED <<call, scenario, initial, lock, active, stateFile, dirs, nextDir, ops>>

\* lines 276-277
ro_applying(p) == Transition(p, "ro_applying", "APPLYING", "ro_apply")

\* ---- _apply_snapshot, lines 361-394 -------------------------------------
PayloadFiles(snapshot_dir) == {f \in snapshot_dir.files : Head(f.path) = "payload"}

\* lines 363-370: staging_<ts> is created.
as_mkdir(p) ==
    /\ proc[p].pc = "ro_apply"
    /\ proc[p].op = "run_once"
    /\ proc[p].plan = "snapshot"
    /\ IF PayloadFiles(dirs[proc[p].cache]) = {}
       THEN Raise(p, "payload_missing") /\ UNCHANGED <<dirs, nextDir>>
       ELSE /\ dirs' = [dirs EXCEPT ![nextDir] = EmptyDir("staging")]
            /\ nextDir' = nextDir + 1
            /\ proc' = [proc EXCEPT ![p].pc = "as_save", ![p].staging = nextDir]
            /\ UNCHANGED hist
    /\ UNCHANGED <<call, scenario, initial, lock, active, stateFile, ops>>

\* lines 372-373 (and 418-419): the staging directory is recorded.
SaveStagingDir(p, from, to) ==
    /\ proc[p].pc = from
    /\ _save_state([proc[p].state EXCEPT !.staging_dir = proc[p].staging])
    /\ proc' = [proc EXCEPT ![p].pc = to, ![p].state.staging_dir = proc[p].staging]
    /\ UNCHANGED <<call, scenario, initial, lock, active, dirs, nextDir, ops, hist>>

as_save(p) == SaveStagingDir(p, "as_save", "as_copy")

\* The files are copied in the order of their paths (sort on as_posix()).
NameRank(c) ==
    CASE c = "a" -> 1 [] c = "b" -> 2 [] c = "c" -> 3 [] c = "d" -> 4 [] OTHER -> 5

FirstByPath(files) ==
    CHOOSE f \in files : \A g \in files : NameRank(Head(f.path)) <= NameRank(Head(g.path))

Max(a, b) == IF a >= b THEN a ELSE b

\* The files of a sorted list that come after its first k.
AfterFirst(files, k) ==
    {f \in files :
        Cardinality({g \in files : NameRank(Head(g.path)) < NameRank(Head(f.path))}) >= k}

\* lines 376-388: one turn of the copy loop over the sorted list, with the injected
\* crash.  A source that is no longer there makes shutil.copy2 raise
\* FileNotFoundError; a staging directory that is no longer there is made again
\* by dst.parent.mkdir and receives the files that are left of the list.
as_copy(p) ==
    /\ proc[p].pc = "as_copy"
    /\ LET src == {File(Tail(g.path), g.content) : g \in PayloadFiles(dirs[proc[p].cache])}
           left == AfterFirst(src, proc[p].copied)
           copied == proc[p].copied + 1
           crash_after == Max(1, Cardinality(src) \div 2)
       IN  IF dirs[proc[p].cache].kind = "none"
           THEN Raise(p, "io_error") /\ UNCHANGED dirs
           ELSE IF left = {}
           THEN Goto(p, "as_manifest") /\ UNCHANGED <<dirs, hist>>
           ELSE /\ dirs' = [dirs EXCEPT ![proc[p].staging] =
                             [@ EXCEPT !.kind = "staging",
                                       !.files = PutFile(@, FirstByPath(left))]]
                /\ IF proc[p].fault /\ copied >= crash_after
                   THEN Raise(p, "injected_crash")
                   ELSE proc' = [proc EXCEPT ![p].copied = copied] /\ UNCHANGED hist
    /\ UNCHANGED <<call, scenario, initial, lock, active, stateFile, nextDir, ops>>

\* lines 391-392
as_manifest(p) ==
    /\ proc[p].pc = "as_manifest"
    /\ IF dirs[proc[p].cache].kind = "none" \/ dirs[proc[p].staging].kind = "none"
       THEN Raise(p, "io_error") /\ UNCHANGED dirs
       ELSE /\ dirs' = [dirs EXCEPT
                   ![proc[p].staging].manifest = dirs[proc[p].cache].manifest,
                   ![proc[p].staging].sig = dirs[proc[p].cache].sig]
            /\ Goto(p, "as_switch")
            /\ UNCHANGED hist
    /\ UNCHANGED <<call, scenario, initial, lock, active, stateFile, nextDir, ops>>

\* line 394
as_switch(p) ==
    /\ proc[p].pc = "as_switch"
    /\ _set_active_name_atomic(proc[p].staging)
    /\ NoteActive(p, proc[p].staging, TRUE)
    /\ Goto(p, "ro_cleanup")
    /\ UNCHANGED <<call, scenario, initial, lock, stateFile, dirs, nextDir, ops>>

\* ---- delta.py apply_delta, lines 203-315 --------------------------------
\* Called by _apply (updater.py lines 351-359) on the cache directory with the TO
\* snapshot of the remote, or directly on a delta directory.
DeltaDir(p) ==
    IF proc[p].op = "run_once" THEN dirs[proc[p].cache]
    ELSE IF call.fn = "build_delta" THEN call.delta_dir[1]
    ELSE RemoteDelta(scenario)

\* lines 209-226 (and updater.py lines 398-411): "ok" or the exception.
DeltaPrecheck(delta_dir, a, ds) ==
    IF verify_delta(delta_dir, "pub") # "ok" THEN verify_delta(delta_dir, "pub")
    ELSE IF ActivePackStatus(a, ds) # "ok" THEN ActivePackStatus(a, ds)
    ELSE IF canonical_manifest_sha256(ds[a].manifest) # delta_dir.dmanifest.from
         THEN "from_mismatch"
    ELSE "ok"

\* lines 209-232: staging_<ts> is created (and recorded nowhere).
MkStaging(p, to) ==
    LET r == DeltaPrecheck(DeltaDir(p), active, dirs)
    IN  IF r # "ok"
        THEN Raise(p, r) /\ UNCHANGED <<dirs, nextDir>>
        ELSE /\ dirs' = [dirs EXCEPT ![nextDir] = EmptyDir("staging")]
             /\ nextDir' = nextDir + 1
             /\ proc' = [proc EXCEPT ![p].pc = to, ![p].staging = nextDir,
                                     ![p].active_pack = active]
             /\ UNCHANGED hist

ad_verify(p) ==
    /\ proc[p].pc = "ro_apply"
    /\ proc[p].plan = "delta"
    /\ ~ proc[p].fault
    /\ MkStaging(p, "ad_copy")
    /\ UNCHANGED <<call, scenario, initial, lock, active, stateFile, ops>>

\* line 235: _copy_tree(active_pack, staging_dir)
ad_copy(p) ==
    /\ proc[p].pc = "ad_copy"
    /\ dirs' = [dirs EXCEPT ![proc[p].staging] =
                  [dirs[proc[p].active_pack] EXCEPT !.kind = "staging"]]
    /\ Goto(p, "ad_ops")
    /\ UNCHANGED <<call, scenario, initial, lock, active, stateFile, nextDir, ops, hist>>

\* lines 246-257 and 260-268: the files after the delete and add_or_replace ops,
\* or the exception.  A delete removes the file at its path, or the tree below it
\* when the path holds a directory (rmtree); the directories that held a removed
\* file stay.  _copy_file makes the parents of dst, which fails when one of them
\* is a regular file, and shutil.copy2 onto a dst that is a directory copies
\* to dst/<name of src> instead, which fails when that is a directory too.
ApplyOps(files, delta_dir) ==
    LET IsPrefix(d, q) == Len(d) <= Len(q) /\ SubSeq(q, 1, Len(d)) = d
        deletes == {_pack_rel_from_manifest_path(d) : d \in delta_dir.dmanifest.delete}
        kept == {f \in files : ~ \E d \in deletes : IsPrefix(d, f.path)}
        folders ==
            {q \in UNION {{SubSeq(f.path, 1, k) : k \in 1 .. (Len(f.path) - 1)} : f \in files}
                      \cup {f.path : f \in {g \in files : g.content = IsADirectory}} :
                ~ \E d \in deletes : IsPrefix(d, q)}
        dst(e) == _pack_rel_from_manifest_path(e.path)
        target(e) ==
            IF dst(e) \in folders THEN Append(dst(e), dst(e)[Len(dst(e))]) ELSE dst(e)
        added == {File(target(e), ContentAt(delta_dir, e.path)) :
                    e \in delta_dir.dmanifest.add_or_replace}
        fails ==
            \E e \in delta_dir.dmanifest.add_or_replace :
                \/ dst(e) \in folders /\ target(e) \in folders
                \/ \E f \in kept : /\ f.content # IsADirectory
                                    /\ Len(f.path) < Len(dst(e))
                                    /\ IsPrefix(f.path, dst(e))
    IN  [exc |-> IF fails THEN "io_error" ELSE "ok",
         files |-> {f \in kept : ~ \E g \in added : g.path = f.path} \cup added]

ad_ops(p) ==
    /\ proc[p].pc = "ad_ops"
    /\ LET r == ApplyOps(dirs[proc[p].staging].files, DeltaDir(p))
       IN  IF r.exc # "ok"
           THEN Raise(p, r.exc) /\ UNCHANGED dirs
           ELSE /\ dirs' = [dirs EXCEPT ![proc[p].staging].files = r.files]
                /\ Goto(p, "ad_final")
                /\ UNCHANGED hist
    /\ UNCHANGED <<call, scenario, initial, lock, active, stateFile, nextDir, ops>>

\* lines 271-302: the strict final verification against the TO snapshot.
FinalVerification(staging_dir, to_snapshot_dir, delta_dir) ==
    IF verify_snapshot(to_snapshot_dir, "pub") # "ok"
    THEN verify_snapshot(to_snapshot_dir, "pub")
    ELSE IF canonical_manifest_sha256(to_snapshot_dir.manifest) # delta_dir.dmanifest.to
         THEN "to_mismatch"
    ELSE IF _list_pack_payload_files(staging_dir)
              # {_pack_rel_from_manifest_path(e.path) : e \in to_snapshot_dir.manifest.files}
         THEN "file_set_mismatch"
    ELSE IF \E e \in to_snapshot_dir.manifest.files :
              st_size(ContentAt(staging_dir, _pack_rel_from_manifest_path(e.path))) # e.size
         THEN "size_mismatch"
    ELSE IF \E e \in to_snapshot_dir.manifest.files :
              sha256_file(ContentAt(staging_dir, _pack_rel_from_manifest_path(e.path)))
                 # e.sha256
         THEN "sha_mismatch"
    ELSE "ok"

\* updater.py line 353: snapshots/<to_version> of the remote.
ToSnapshotDir(p) ==
    IF proc[p].op # "run_once" /\ call.fn = "build_delta" THEN call.to_snapshot_dir
    ELSE RemoteSnapshot(scenario, Latest(scenario).latest_version)

\* lines 271-306
ad_final(p) ==
    /\ proc[p].pc = "ad_final"
    /\ IF proc[p].op = "run_once" \/ proc[p].to_snapshot
       THEN LET r == FinalVerification(dirs[proc[p].staging], ToSnapshotDir(p), DeltaDir(p))
            IN  IF r # "ok"
                THEN Raise(p, r) /\ UNCHANGED dirs
                ELSE /\ dirs' = [dirs EXCEPT
                            ![proc[p].staging].manifest = ToSnapshotDir(p).manifest,
                            ![proc[p].staging].sig = ToSnapshotDir(p).sig]
                     /\ Goto(p, "ad_switch")
                     /\ UNCHANGED hist
       ELSE Goto(p, "ad_switch") /\ UNCHANGED <<dirs, hist>>
    /\ UNCHANGED <<call, scenario, initial, lock, active, stateFile, nextDir, ops>>

\* lines 309-315
ad_switch(p) ==
    /\ proc[p].pc = "ad_switch"
    /\ active' = proc[p].staging
    /\ IF proc[p].op = "run_once"
       THEN /\ Goto(p, "ro_cleanup")
            /\ NoteActive(p, proc[p].staging, TRUE)
       ELSE /\ proc' = [proc EXCEPT ![p] = IdleProc]
            /\ hist' = [hist EXCEPT ![p].result = "ok", ![p].switched = proc[p].staging,
                                    ![p].writes = @ + 1]
    /\ UNCHANGED <<call, scenario, initial, lock, stateFile, dirs, nextDir, ops>>

apply_delta_call(p, to_snapshot) ==
    /\ Begin(p, "apply_delta", IF to_snapshot THEN "to_snapshot_dir" ELSE "none")
    /\ proc' = [proc EXCEPT ![p].pc = "ro_apply", ![p].op = "apply_delta",
                            ![p].plan = "delta", ![p].to_snapshot = to_snapshot]
    /\ UNCHANGED <<call, scenario, initial, lock, active, stateFile, dirs, nextDir>>

\* ---- _apply_delta_with_injection, lines 396-438 -------------------------
adi_verify(p) ==
    /\ proc[p].pc = "ro_apply"
    /\ proc[p].plan = "delta"
    /\ proc[p].fault
    /\ MkStaging(p, "adi_save")
    /\ UNCHANGED <<call, scenario, initial, lock, active, stateFile, ops>>

adi_save(p) == SaveStagingDir(p, "adi_save", "adi_copy")

\* Files of a pack directory, manifest.json and manifest.sig included.
FileCount(dir) ==
    Cardinality(dir.files) + (IF dir.manifest # NoManifest THEN 1 ELSE 0)
                           + (IF dir.sig # NoSig THEN 1 ELSE 0)

\* lines 422-433: one turn of the copy loop; the crash is injected after
\* max(1, n // 2) files, so the loop never ends normally and lines 435-438 never run.
adi_copy(p) ==
    /\ proc[p].pc = "adi_copy"
    /\ LET src == dirs[proc[p].active_pack]
           dst == dirs[proc[p].staging]
           left == AfterFirst(src.files, proc[p].copied)
           crash_after == Max(1, FileCount(src) \div 2)
       IN  /\ proc[p].copied < FileCount(src)
           /\ dirs' = [dirs EXCEPT ![proc[p].staging] =
                         IF left # {}
                         THEN [dst EXCEPT !.kind = "staging",
                                          !.files = PutFile(@, FirstByPath(left))]
                         ELSE IF proc[p].copied = Cardinality(src.files)
                                   /\ src.manifest # NoManifest
                              THEN [dst EXCEPT !.kind = "staging", !.manifest = src.manifest]
                         ELSE [dst EXCEPT !.kind = "staging", !.sig = src.sig]]
           /\ IF proc[p].copied + 1 >= crash_after
              THEN Raise(p, "injected_crash")
              ELSE proc' = [proc EXCEPT ![p].copied = @ + 1] /\ UNCHANGED hist
    /\ UNCHANGED <<call, scenario, initial, lock, active, stateFile, nextDir, ops>>

\* ---- run_once, lines 281-299 --------------------------------------------
ro_cleanup(p) == Transition(p, "ro_cleanup", "CLEANUP", "ro_rmcache")

\* line 283
ro_rmcache(p) ==
    /\ proc[p].pc = "ro_rmcache"
    /\ dirs' = _cleanup_dir(dirs, proc[p].cache)
    /\ Goto(p, "ro_idle")
    /\ UNCHANGED <<call, scenario, initial, lock, active, stateFile, nextDir, ops, hist>>

\* lines 284-285
ro_idle(p) ==
    /\ proc[p].pc = "ro_idle"
    /\ _save_state(StateRec("IDLE"))
    /\ proc' = [proc EXCEPT ![p].pc = "ro_release", ![p].exc = "none"]
    /\ UNCHANGED <<call, scenario, initial, lock, active, dirs, nextDir, ops, hist>>

\* The state an exception is recorded as.
FailedState(exception) ==
    IF IsValueError(exception) THEN "FAILED_HARD" ELSE "FAILED_RETRYABLE"

\* lines 286-297: ValueError is recorded as FAILED_HARD, any other exception as
\* FAILED_RETRYABLE.
ro_except(p) ==
    /\ proc[p].pc = "ro_except"
    /\ _save_state([_load_state(stateFile) EXCEPT
                       !.state = FailedState(proc[p].exc),
                       !.error = proc[p].exc])
    /\ Goto(p, "ro_release")
    /\ UNCHANGED <<call, scenario, initial, lock, active, dirs, nextDir, ops, hist>>

\* _release_lock, lines 104-108, in the finally clause; then run_once returns or
\* re-raises.
_release_lock(p) ==
    /\ proc[p].pc = "ro_release"
    /\ lock' = FALSE
    /\ Finish(p, IF proc[p].exc = "none" THEN "ok" ELSE proc[p].exc)
    /\ UNCHANGED <<call, scenario, initial, active, stateFile, dirs, nextDir, ops>>

\* ---- install_snapshot.py install_snapshot, lines 76-104 -----------------
install_snapshot_call(p, name) ==
    /\ Begin(p, "install_snapshot", name)
    /\ proc' = [proc EXCEPT ![p].pc = "is_verify", ![p].op = "install_snapshot",
                            ![p].snapshot = name]
    /\ UNCHANGED <<call, scenario, initial, lock, active, stateFile, dirs, nextDir>>

\* lines 85-97
is_verify(p) ==
    /\ proc[p].pc = "is_verify"
    /\ LET snap == RemoteSnapshot(scenario, proc[p].snapshot)
           r == verify_snapshot(snap, "pub")
       IN  IF r # "ok" \/ PayloadFiles(snap) = {}
           THEN Raise(p, IF r # "ok" THEN r ELSE "payload_missing")
                /\ UNCHANGED <<dirs, nextDir>>
           ELSE /\ dirs' = [dirs EXCEPT ![nextDir] = EmptyDir("staging")]
                /\ nextDir' = nextDir + 1
                /\ proc' = [proc EXCEPT ![p].pc = "is_copy", ![p].staging = nextDir]
                /\ UNCHANGED hist
    /\ UNCHANGED <<call, scenario, initial, lock, active, stateFile, ops>>

\* line 99: _copy_tree(payload_dir, staging_dir)
is_copy(p) ==
    /\ proc[p].pc = "is_copy"
    /\ dirs' = [dirs EXCEPT ![proc[p].staging].files =
                  {File(Tail(f.path), f.content) :
                      f \in PayloadFiles(RemoteSnapshot(scenario, proc[p].snapshot))}]
    /\ Goto(p, "is_switch")
    /\ UNCHANGED <<call, scenario, initial, lock, active, stateFile, nextDir, ops, hist>>

\* lines 101-104
is_switch(p) ==
    /\ proc[p].pc = "is_switch"
    /\ active' = proc[p].staging
    /\ proc' = [proc EXCEPT ![p] = IdleProc]
    /\ hist' = [hist EXCEPT ![p].result = "ok", ![p].switched = proc[p].staging,
                            ![p].writes = @ + 1]
    /\ UNCHANGED <<call, scenario, initial, lock, stateFile, dirs, nextDir, ops>>

\* ---- the publisher replaces latest.json between two calls: v2 is withdrawn ----
publisher_withdraws ==
    /\ \A p \in Procs : proc[p].pc = "idle"
    /\ scenario \notin {"withdrawn", "no_latest"}
    /\ ops < MaxOps
    /\ ops' = ops + 1
    /\ scenario' = "withdrawn"
    /\ UNCHANGED <<call, initial, lock, active, stateFile, dirs, nextDir, proc, hist>>

\* ---- the process is killed (or the machine loses power) inside a call ----
Kill(p) ==
    /\ proc[p].pc # "idle"
    /\ ops < MaxOps
    /\ ops' = ops + 1
    /\ Finish(p, "killed")
    /\ UNCHANGED <<call, scenario, initial, lock, active, stateFile, dirs, nextDir>>

\* ---- specifications ------------------------------------------------------
\* The steps of the updater's own calls, run_once and recover_on_startup.
UpdaterStep(p) ==
    \/ \E f \in BOOLEAN : _acquire_lock(p, f)
    \/ lock_already_held(p)
    \/ recover_on_startup_call(p)
    \/ rec_load(p) \/ rec_active(p) \/ rec_staging(p) \/ rec_cache(p) \/ rec_save(p)
    \/ ro_checking(p) \/ ro_check(p) \/ ro_uptodate(p) \/ ro_plan(p)
    \/ ro_downloading(p) \/ ro_download(p) \/ ro_copy(p) \/ ro_copy_io_error(p)
    \/ ro_cache_path(p) \/ ro_staging(p) \/ ro_verifying(p) \/ ro_verify(p)
    \/ ro_applying(p)
    \/ as_mkdir(p) \/ as_save(p) \/ as_copy(p) \/ as_manifest(p) \/ as_switch(p)
    \/ ad_verify(p) \/ ad_copy(p) \/ ad_ops(p) \/ ad_final(p) \/ ad_switch(p)
    \/ adi_verify(p) \/ adi_save(p) \/ adi_copy(p)
    \/ ro_cleanup(p) \/ ro_rmcache(p) \/ ro_idle(p) \/ ro_except(p) \/ _release_lock(p)

\* The steps of install_snapshot and apply_delta called directly.
DirectStep(p) ==
    \/ \E n \in {"v1", "v2"} : install_snapshot_call(p, n)
    \/ is_verify(p) \/ is_copy(p) \/ is_switch(p)
    \/ \E t \in BOOLEAN : apply_delta_call(p, t)

\* One caller: the calls on the data directory follow one another, a call may be
\* killed, and the remote may change between two calls.
Next == UpdaterStep(1) \/ DirectStep(1) \/ Kill(1) \/ publisher_withdraws

Spec == Init /\ [][Next]_vars

\* Two processes call the updater on the same data directory, with a remote that
\* is in order; their steps interleave.  MaxConcOps calls are started in all.
InitConc == Init /\ scenario = "ok" /\ initial \in {"v0", "v1"}

NextConc == \E p \in Procs : UpdaterStep(p) /\ (ops' = ops \/ ops < MaxConcOps)

SpecConc == InitConc /\ [][NextConc]_vars

\* One caller on a remote whose snapshots/v2 was tampered with after it was
\* signed (or is as built, "ok"); MaxPackOps events in all.
InitPack ==
    /\ scenario \in TamperNames \cup {"ok"}
    /\ initial \in (IF scenario = "ok" THEN {"empty", "v0", "v1"} ELSE {"empty", "v0"})
    /\ Constructed
    /\ call = NoCall

NextPack ==
    /\ UpdaterStep(1) \/ DirectStep(1) \/ Kill(1)
    /\ ops' = ops \/ ops < MaxPackOps

SpecPack == InitPack /\ [][NextPack]_vars

\* ---- build_delta and apply_delta on any two snapshots --------------------
\* The payloads the two snapshots are built from: regular files at a, a/b and c,
\* each with one of two contents; a tree holds a as a file or as a directory.
DeltaPayloads ==
    {P \in SUBSET {File(q, c) : q \in {<<"a">>, <<"a", "b">>, <<"c">>},
                               c \in {<<"x", 1>>, <<"y", 2>>}} :
        /\ \A f, g \in P : f.path = g.path => f = g
        /\ ~ \E f, g \in P : f.path = <<"a">> /\ g.path = <<"a", "b">>}

\* The FROM and TO snapshot are built (build_snapshot.py) and the data directory
\* holds the PackInstall of the FROM snapshot as its active pack.
InitDelta ==
    /\ scenario = "ok"
    /\ initial = "from_snapshot"
    /\ \E A, B \in DeltaPayloads :
          /\ call = [fn |-> "build_delta",
                     from_snapshot_dir |-> build_snapshot(A, "from", "priv"),
                     to_snapshot_dir |-> build_snapshot(B, "to", "priv"),
                     delta_dir |-> <<>>]
          /\ dirs = [d \in DirIds |->
                       IF d = 1 THEN PackInstall(build_snapshot(A, "from", "priv"))
                       ELSE NoDir]
    /\ lock = FALSE
    /\ active = 1
    /\ stateFile = StateRec("ABSENT")
    /\ nextDir = 2
    /\ proc = [p \in Procs |-> IdleProc]
    /\ ops = 0
    /\ hist = [p \in Procs |-> NoHist]

\* build_delta(from_snapshot_dir, to_snapshot_dir, delta_dir, private_key_b64)
build_delta_call ==
    /\ call.fn = "build_delta"
    /\ call.delta_dir = <<>>
    /\ call' = [call EXCEPT !.delta_dir =
                  <<build_delta(call.from_snapshot_dir, call.to_snapshot_dir, "priv")>>]
    /\ UNCHANGED packVars

\* The delta is built and then applied once, with or without the TO snapshot.
NextDelta ==
    \/ build_delta_call
    \/ call.delta_dir # <<>> /\ ops = 0 /\ \E t \in BOOLEAN : apply_delta_call(1, t)
    \/ ad_verify(1) \/ ad_copy(1) \/ ad_ops(1) \/ ad_final(1) \/ ad_switch(1)

SpecDelta == InitDelta /\ [][NextDelta]_vars

\* ------------------------------------------------------------------------
\* llm/schemas.py, llm/enforcement.py
\* ------------------------------------------------------------------------
\* Number of argument paths of a response.
MaxPaths == 2

\* Largest number of claims, and of supporting citations, of an argument path, and
\* largest threshold.
MaxCount == 2

\* ArgumentPath objects live on a heap: a response holds references to them, so
\* that a copy that shares them can be told from one that does not.  The claims
\* and supporting_citations of a path are modelled by their lengths.
PathIds == 1 .. (2 * MaxPaths)

NoPath == [title |-> "none", claims |-> 0, supporting_citations |-> 0]

ArgumentPath(title, claims, supporting_citations) ==
    [title |-> title, claims |-> claims, supporting_citations |-> supporting_citations]

Titles == <<"Path A", "Path B", "Path C">>

\* enforcement.py lines 6-9 and 42-44: the entries of missing_info.
_DEFAULT_INSUFFICIENT_MSG == <<"insufficient", "grounded content">>

RemovedClaimsMsg(title) == <<"removed claims in path", title>>

\* A DefenseDirectionsResponse; counterarguments and risks are copied and never
\* read, and are left out.
Response(argument_paths, missing_info, insufficient_authority) ==
    [argument_paths |-> argument_paths, missing_info |-> missing_info,
     insufficient_authority |-> insufficient_authority]

\* The value of a response: its fields with the paths it refers to.
Dump(heap, resp) ==
    [argument_paths |-> [i \in 1 .. Len(resp.argument_paths) |-> heap[resp.argument_paths[i]]],
     missing_info |-> resp.missing_info,
     insufficient_authority |-> resp.insufficient_authority]

\* A copy that shares the ArgumentPath objects with the original.
model_copy_shallow(heap, resp) == [heap |-> heap, out |-> resp]

\* resp.model_copy(deep=True), line 32: every path is copied to a fresh object.
model_copy(heap, resp) ==
    LET n == Len(resp.argument_paths)
        fresh == [i \in 1 .. n |-> MaxPaths + i]
    IN  [heap |-> [id \in PathIds |->
                     IF \E i \in 1 .. n : fresh[i] = id
                     THEN heap[resp.argument_paths[CHOOSE i \in 1 .. n : fresh[i] = id]]
                     ELSE heap[id]],
         out |-> [resp EXCEPT !.argument_paths = fresh]]

RECURSIVE RemovedMsgs(_, _, _)
\* lines 37-44: the messages appended for the paths with too few citations, in
\* the order of the paths.
RemovedMsgs(heap, ids, min_citations_per_path) ==
    IF ids = <<>> THEN <<>>
    ELSE (IF heap[Head(ids)].supporting_citations < min_citations_per_path
          THEN <<RemovedClaimsMsg(heap[Head(ids)].title)>> ELSE <<>>)
         \o RemovedMsgs(heap, Tail(ids), min_citations_per_path)

RECURSIVE Sum(_)
Sum(ns) == IF ns = <<>> THEN 0 ELSE Head(ns) + Sum(Tail(ns))

\* enforce_no_citation_no_claim, lines 12-58: the heap after the call and the
\* response returned.
enforce_no_citation_no_claim(heap, resp, min_paths, min_total_claims, min_citations_per_path) ==
    LET copy == model_copy(heap, resp)
        ids == copy.out.argument_paths
        cut(id) == copy.heap[id].supporting_citations < min_citations_per_path
        heap2 == [id \in PathIds |->
                    IF (\E i \in 1 .. Len(ids) : ids[i] = id) /\ cut(id)
                    THEN [copy.heap[id] EXCEPT !.claims = 0]
                    ELSE copy.heap[id]]
        has_claims(id) == heap2[id].claims > 0
        new_paths == SelectSeq(ids, has_claims)
        missing_info == copy.out.missing_info
                           \o RemovedMsgs(copy.heap, ids, min_citations_per_path)
        paths_left == Len(new_paths)
        claims_left == Sum([i \in 1 .. Len(new_paths) |-> heap2[new_paths[i]].claims])
        insufficient == paths_left < min_paths \/ claims_left < min_total_claims
    IN  [heap |-> heap2,
         out |-> Response(
                   new_paths,
                   IF insufficient
                      /\ ~ \E i \in 1 .. Len(missing_info) :
                              missing_info[i] = _DEFAULT_INSUFFICIENT_MSG
                   THEN Append(missing_info, _DEFAULT_INSUFFICIENT_MSG)
                   ELSE missing_info,
                   insufficient \/ copy.out.insufficient_authority)]

\* The responses a caller may pass: up to MaxPaths paths, each with 0..MaxCount
\* claims and citations (the schema wants one claim at least, but nothing
\* validates an assignment to a validated model), any missing_info and flag.
InputHeaps ==
    {[id \in PathIds |->
        IF id <= Len(paths)
        THEN ArgumentPath(Titles[id], paths[id][1], paths[id][2])
        ELSE NoPath] :
     paths \in UNION {[1 .. n -> (0 .. MaxCount) \X (0 .. MaxCount)] : n \in 0 .. MaxPaths}}

InputMissingInfo == {<<>>, <<<<"given", "m">>>>, <<_DEFAULT_INSUFFICIENT_MSG>>}

\* A caller holds a response and calls enforce_no_citation_no_claim on it.
InitEnforce ==
    /\ scenario = "ok" /\ initial = "empty" /\ Constructed
    /\ \E h \in InputHeaps, m \in InputMissingInfo, ia \in BOOLEAN :
          LET n == Cardinality({id \in PathIds : h[id] # NoPath})
              resp == Response([i \in 1 .. n |-> i], m, ia)
          IN  call = [fn |-> "enforce_no_citation_no_claim", pc |-> "called",
                      heap |-> h, resp |-> resp, given |-> Dump(h, resp),
                      min_paths |-> 1, min_total_claims |-> 1,
                      min_citations_per_path |-> 1, out |-> resp]

enforce_call(min_paths, min_total_claims, min_citations_per_path) ==
    /\ call.fn = "enforce_no_citation_no_claim"
    /\ call.pc = "called"
    /\ LET r == enforce_no_citation_no_claim(call.heap, call.resp, min_paths,
                                              min_total_claims, min_citations_per_path)
       IN  call' = [call EXCEPT !.pc = "returned", !.heap = r.heap, !.out = r.out,
                                !.min_paths = min_paths,
                                !.min_total_claims = min_total_claims,
                                !.min_citations_per_path = min_citations_per_path]
    /\ UNCHANGED packVars

NextEnforce ==
    \E min_paths \in 0 .. 1, min_total_claims \in 0 .. 1,
       min_citations_per_path \in 0 .. MaxCount :
        enforce_call(min_paths, min_total_claims, min_citations_per_path)

SpecEnforce == InitEnforce /\ [][NextEnforce]_vars

\* ------------------------------------------------------------------------
\* llm/orchestrator.py, llm/audit.py
\* ------------------------------------------------------------------------
EmptyHeap == [id \in PathIds |-> NoPath]

\* What runtime.generate may return.  A text is the JSON of a response-shaped
\* object (any path counts, also a path without claims), that JSON between two
\* pieces of prose, the same object with one more key, a JSON array, or a text
\* that is no JSON: empty, prose, prose with braces in it, a text nested deeper
\* than the interpreter's recursion limit, and an object holding an integer
\* literal longer than the interpreter's limit for integer conversion.
RawOutputs ==
    {[text |-> t, value |-> "response", heap |-> h,
      resp |-> Response([i \in 1 .. Cardinality({id \in PathIds : h[id] # NoPath}) |-> i], m, ia)] :
        t \in {"json", "prose_json_prose"}, h \in InputHeaps,
        m \in {<<>>, <<<<"given", "m">>>>}, ia \in BOOLEAN}
    \cup {[text |-> t[1], value |-> t[2], heap |-> EmptyHeap, resp |-> Response(<<>>, <<>>, FALSE)] :
            t \in {<<"json", "extra_key">>, <<"json", "array">>, <<"empty", "none">>,
                   <<"prose", "none">>, <<"prose_braces", "none">>,
                   <<"deep_nesting", "none">>, <<"long_integer", "none">>}}

\* _extract_json_object, lines 38-59: the exception json.loads or the function
\* raises, or "ok" and the value parsed.
_extract_json_object(raw) ==
    CASE raw.text = "empty" -> "JSONDecodeError"
      [] raw.text = "json" -> "ok"
      [] raw.text = "deep_nesting" -> "RecursionError"
      [] raw.text = "long_integer" -> "ValueError"
      [] raw.text = "prose" -> "JSONDecodeError"
      [] raw.text = "prose_json_prose" -> "ok"
      [] raw.text = "prose_braces" -> "JSONDecodeError"

\* DefenseDirectionsResponse.model_validate, schemas.py lines 19-41: extra keys
\* are forbidden, the value is an object, every path has one claim at least;
\* supporting_citations may be empty.
model_validate(raw) ==
    IF raw.value = "response"
       /\ \A i \in 1 .. Len(raw.resp.argument_paths) : raw.heap[raw.resp.argument_paths[i]].claims >= 1
    THEN "ok" ELSE "ValidationError"

\* DefenseDirectionsResponse.fallback with the info of lines 176-180.
fallback(first_error, second_error) ==
    Response(<<>>, <<<<"not valid JSON per schema after repair attempt", "">>,
                     <<"first_error", first_error>>, <<"second_error", second_error>>>>, TRUE)

\* The bodies of the two try blocks, lines 159-161 and 170-172: the exception
\* raised, or "ok" and the enforced response.
try_parse(raw) ==
    LET parsed == _extract_json_object(raw)
        status == IF parsed # "ok" THEN parsed ELSE model_validate(raw)
        r == enforce_no_citation_no_claim(raw.heap, raw.resp, 1, 1, 1)
    IN  [status |-> status,
         final |-> IF status = "ok" THEN Dump(r.heap, r.out) ELSE Dump(EmptyHeap, raw.resp)]

\* The states of the audit sink: the database file of _db_path is missing, the
\* connection or the PRAGMA fails, the INSERT fails, or the row is written.
Sinks == {"ok", "db_missing", "connect_error", "insert_error"}

\* An audit whose sink failures propagate to the caller.
_audit_unguarded(sink, resp_final) ==
    [rows |-> IF sink = "ok" THEN 1 ELSE 0,
     error |-> IF sink = "ok" THEN "none" ELSE sink]

\* _audit_best_effort, lines 103-141, with try_audit_llm_generation_to_db,
\* audit.py lines 26-68: the rows appended and the exception that leaves it.
_audit_best_effort(sink, resp_final) ==
    [rows |-> IF sink = "ok" THEN 1 ELSE 0,
     error |-> "none"]

\* A caller calls generate_defense_directions with some citations or none.
InitGenerate ==
    /\ scenario = "ok" /\ initial = "empty" /\ Constructed
    /\ \E citations \in 0 .. 1, sink \in Sinks :
          call = [fn |-> "generate_defense_directions", pc |-> "called",
                  citations |-> citations, sink |-> sink,
                  llm_calls |-> 0, outputs |-> <<>>, audits |-> 0, audit_rows |-> 0,
                  final |-> Dump(EmptyHeap, Response(<<>>, <<>>, FALSE)),
                  out |-> Dump(EmptyHeap, Response(<<>>, <<>>, FALSE)),
                  error |-> "none"]

\* lines 162-163, 173-174, 182-183: audit the final response and return it.
audit_and_return(c, final) ==
    LET a == _audit_best_effort(c.sink, final)
    IN  IF a.error = "none"
        THEN [c EXCEPT !.pc = "returned", !.final = final, !.out = final,
                       !.audits = @ + 1, !.audit_rows = @ + a.rows]
        ELSE [c EXCEPT !.pc = "raised", !.final = final, !.error = a.error,
                       !.audits = @ + 1]

\* lines 143-165: the first generation, and what follows it up to the return,
\* the raise, or the repair call.
first_pass ==
    /\ call.fn = "generate_defense_directions"
    /\ call.pc = "called"
    /\ \E raw \in RawOutputs :
       LET t == try_parse(raw)
           c == [call EXCEPT !.llm_calls = @ + 1, !.outputs = Append(@, t.status)]
       IN  call' = IF t.status = "ok" THEN audit_and_return(c, t.final)
                   ELSE IF t.status \in {"JSONDecodeError", "ValidationError"}
                   THEN [c EXCEPT !.pc = "repair"]
                   ELSE [c EXCEPT !.pc = "raised", !.error = t.status]
    /\ UNCHANGED packVars

\* lines 167-183: the repair generation, and what follows it up to the return
\* or the raise.
repair_pass ==
    /\ call.fn = "generate_defense_directions"
    /\ call.pc = "repair"
    /\ \E raw \in RawOutputs :
       LET t == try_parse(raw)
           c == [call EXCEPT !.llm_calls = @ + 1, !.outputs = Append(@, t.status)]
           f == enforce_no_citation_no_claim(EmptyHeap, fallback(call.outputs[1], t.status), 1, 1, 1)
       IN  call' = IF t.status = "ok" THEN audit_and_return(c, t.final)
                   ELSE IF t.status \in {"JSONDecodeError", "ValidationError"}
                   THEN audit_and_return(c, Dump(f.heap, f.out))
                   ELSE [c EXCEPT !.pc = "raised", !.error = t.status]
    /\ UNCHANGED packVars

NextGenerate == first_pass \/ repair_pass

SpecGenerate == InitGenerate /\ [][NextGenerate]_vars

\* ------------------------------------------------------------------------
\* retrieval/hybrid_retrieval.py
\* ------------------------------------------------------------------------
\* Number of hits of a call, lexical and vector together.
MaxHits == 3

\* The chunk ids, in the order of str.
ChunkIds == <<"a", "b", "c">>

\* bm25 scores and distances are counted in halves: 1 stands for 0.5.  The
\* bm25 of SQLite's FTS5 is negative (fts_retrieval.py lines 86-101 return it
\* raw); the tests pass 0.5 and 1.0.  Cosine distances lie in 0 .. 2.
Bm25Values == {-4, -2, -1, 1, 4}

Distances == {0, 2}

\* An absent signal (None) is <<>>, a present one <<x>>.
\* lines 98-103: 1.0 / (1.0 + x) as an exact fraction with a positive
\* denominator, 0.0 for an absent signal; undefined where 1 + x is 0.
signal_score(x) ==
    IF x = <<>> THEN [num |-> 0, den |-> 1]
    ELSE IF 2 + x[1] > 0 THEN [num |-> 2, den |-> 2 + x[1]]
    ELSE [num |-> -2, den |-> -(2 + x[1])]

\* line 103: 0.6 * fts_score + 0.4 * vec_score.
fused_score(fts_bm25, vector_distance) ==
    LET f == signal_score(fts_bm25)
        v == signal_score(vector_distance)
    IN  [num |-> 3 * f.num * v.den + 2 * v.num * f.den, den |-> 5 * f.den * v.den]

\* lines 66-95: the best (lowest) value seen for a chunk id in a list of hits.
Best(hits, chunk_id) ==
    LET seen == {hits[i].value : i \in {j \in 1 .. Len(hits) : hits[j].chunk_id = chunk_id}}
    IN  IF seen = {} THEN <<>> ELSE <<CHOOSE x \in seen : \A y \in seen : x <= y>>

\* The sort key of lines 106-112, (-score, bm25 or 1e9, chunk_id): m1 sorts
\* before m2.
SortsBefore(m1, m2) ==
    LET rank(id) == CHOOSE i \in 1 .. Len(ChunkIds) : ChunkIds[i] = id
        higher == m1.score.num * m2.score.den > m2.score.num * m1.score.den
        equal == m1.score.num * m2.score.den = m2.score.num * m1.score.den
        b1 == IF m1.fts_bm25 = <<>> THEN 2000000000 ELSE m1.fts_bm25[1]
        b2 == IF m2.fts_bm25 = <<>> THEN 2000000000 ELSE m2.fts_bm25[1]
    IN  \/ higher
        \/ equal /\ b1 < b2
        \/ equal /\ b1 = b2 /\ rank(m1.chunk_id) < rank(m2.chunk_id)

RECURSIVE Sorted(_)
\* items.sort of lines 105-112.
Sorted(items) ==
    IF items = {} THEN <<>>
    ELSE LET first == CHOOSE m \in items : \A o \in items \ {m} : SortsBefore(m, o)
         IN  <<first>> \o Sorted(items \ {first})

\* merge_and_rank, lines 44-113: the list returned, or the exception raised.
merge_and_rank(fts_hits, vec_hits, top_n) ==
    LET ids == {fts_hits[i].chunk_id : i \in 1 .. Len(fts_hits)}
                 \cup {vec_hits[i].chunk_id : i \in 1 .. Len(vec_hits)}
        undefined == \E id \in ids :
                        \/ Best(fts_hits, id) # <<>> /\ 2 + Best(fts_hits, id)[1] = 0
                        \/ Best(vec_hits, id) # <<>> /\ 2 + Best(vec_hits, id)[1] = 0
        merged == {[chunk_id |-> id,
                    fts_bm25 |-> Best(fts_hits, id),
                    vector_distance |-> Best(vec_hits, id),
                    score |-> fused_score(Best(fts_hits, id), Best(vec_hits, id))] : id \in ids}
    IN  IF top_n <= 0 THEN [raised |-> "none", items |-> <<>>]
        ELSE IF undefined THEN [raised |-> "ZeroDivisionError", items |-> <<>>]
        ELSE [raised |-> "none",
              items |-> SubSeq(Sorted(merged), 1,
                               IF top_n < Cardinality(merged) THEN top_n ELSE Cardinality(merged))]

\* A caller passes lists of lexical and of vector hits and a top_n.
InitMerge ==
    /\ scenario = "ok" /\ initial = "empty" /\ Constructed
    /\ \E nf \in 0 .. MaxHits, top_n \in 0 .. MaxHits :
       \E nv \in 0 .. (MaxHits - nf) :
       \E fts_hits \in [1 .. nf -> [chunk_id : {ChunkIds[i] : i \in 1 .. Len(ChunkIds)},
                                     value : Bm25Values]],
          vec_hits \in [1 .. nv -> [chunk_id : {ChunkIds[i] : i \in 1 .. Len(ChunkIds)},
                                     value : Distances]] :
          call = [fn |-> "merge_and_rank", pc |-> "called", fts_hits |-> fts_hits,
                  vec_hits |-> vec_hits, top_n |-> top_n, raised |-> "none", out |-> <<>>]

merge_call ==
    /\ call.fn = "merge_and_rank"
    /\ call.pc = "called"
    /\ LET r == merge_and_rank(call.fts_hits, call.vec_hits, call.top_n)
       IN  call' = [call EXCEPT !.pc = IF r.raised = "none" THEN "returned" ELSE "raised",
                                !.raised = r.raised, !.out = r.items]
    /\ UNCHANGED packVars

SpecMerge == InitMerge /\ [][merge_call]_vars

\* ------------------------------------------------------------------------
\* retrieval/hybrid_retrieval.py: extract_citations
\* ------------------------------------------------------------------------
\* A text is a sequence of characters.  "I." stands for U+0130, the capital I with
\* a dot above, whose str.lower() is two characters, "i" and the combining dot ".".
\* Largest number of runs a chunk text is made of, and of query terms.
MaxRuns == 2

MaxTerms == 2

\* Length of a long run: longer than half the window of extract_citations.
LongRun == 120

\* The pattern pat, n times.
Rep(pat, n) == [i \in 1 .. (n * Len(pat)) |-> pat[((i - 1) % Len(pat)) + 1]]

RECURSIVE Concat(_)
Concat(parts) == IF parts = <<>> THEN <<>> ELSE Head(parts) \o Concat(Tail(parts))

\* str.lower(), character by character.
RECURSIVE str_lower(_)
str_lower(s) ==
    IF s = <<>> THEN <<>>
    ELSE IF Len(s) = 1
         THEN CASE s[1] = "A" -> <<"a">>
                [] s[1] = "B" -> <<"b">>
                [] s[1] = "C" -> <<"c">>
                [] s[1] = "K" -> <<"k">>
                [] s[1] = "S" -> <<"s">>
                [] s[1] = "I." -> <<"i", ".">>
                [] OTHER -> s
    ELSE str_lower(SubSeq(s, 1, Len(s) \div 2))
            \o str_lower(SubSeq(s, Len(s) \div 2 + 1, Len(s)))

\* str.strip()
strip(s) ==
    LET inked == {i \in 1 .. Len(s) : s[i] # " "}
    IN  IF inked = {} THEN <<>>
        ELSE SubSeq(s, CHOOSE i \in inked : \A k \in 1 .. i - 1 : s[k] = " ",
                       CHOOSE i \in inked : \A k \in i + 1 .. Len(s) : s[k] = " ")

\* str.find(sub): the lowest 0-based index where sub occurs, or -1.
find(s, sub) ==
    LET at == {i \in 0 .. (Len(s) - Len(sub)) : \A j \in 1 .. Len(sub) : s[i + j] = sub[j]}
    IN  IF at = {} THEN -1 ELSE CHOOSE i \in at : \A k \in at : i <= k

\* _find_first_match, lines 123-141: <<>> for None, else <<(start, end)>> of the
\* match that starts first, the first term winning among equal starts.
_find_first_match(text, terms) ==
    LET low == str_lower(text)
        span(k) == LET t2 == strip(terms[k])
                       pos == find(low, str_lower(t2))
                   IN  <<pos, pos + Len(t2)>>
        found == {k \in 1 .. Len(terms) : strip(terms[k]) # <<>> /\ span(k)[1] >= 0}
    IN  IF found = {} THEN <<>>
        ELSE <<span(CHOOSE k \in found :
                      \A m \in found : \/ span(k)[1] < span(m)[1]
                                       \/ span(k)[1] = span(m)[1] /\ k <= m)>>

\* _snap_to_word_boundary, lines 144-153.  text[s - 1] with s - 1 >= len(text)
\* raises IndexError.
_snap_to_word_boundary(text, start, end) ==
    LET s0 == IF start < 0 THEN 0 ELSE start
        e0 == IF end > Len(text) THEN Len(text) ELSE end
        ss == {i \in 0 .. s0 : i = 0 \/ text[i] = " "}
        ee == {i \in e0 .. Len(text) : i = Len(text) \/ text[i + 1] = " "}
    IN  IF s0 > Len(text) THEN [raised |-> "IndexError", span |-> <<0, 0>>]
        ELSE [raised |-> "none",
              span |-> <<CHOOSE i \in ss : \A k \in ss : k <= i,
                         CHOOSE i \in ee : \A k \in ee : i <= k>>]

Citation(text, span) ==
    [quote |-> SubSeq(text, span[1] + 1, span[2]), start |-> span[1], end |-> span[2]]

\* extract_citations, lines 156-192
extract_citations(chunk_text, query_terms, max_citations) ==
    LET text == chunk_text
        match == _find_first_match(text, query_terms)
        center == (match[1][1] + match[1][2]) \div 2
        s0 == IF center - 220 \div 2 < 0 THEN 0 ELSE center - 220 \div 2
        e0 == IF s0 + 220 > Len(text) THEN Len(text) ELSE s0 + 220
        snapped == IF match # <<>> THEN _snap_to_word_boundary(text, s0, e0)
                   ELSE _snap_to_word_boundary(text, 0,
                                               IF Len(text) < 200 THEN Len(text) ELSE 200)
        citations == <<Citation(text, snapped.span)>>
    IN  IF text = <<>> THEN [raised |-> "none", citations |-> <<Citation(<<>>, <<0, 0>>)>>]
        ELSE IF snapped.raised # "none" THEN [raised |-> snapped.raised, citations |-> <<>>]
        ELSE [raised |-> "none",
              citations |-> SubSeq(citations, 1,
                                   IF max_citations < 1 \/ Len(citations) < max_citations
                                   THEN 1 ELSE max_citations)]

\* The chunk texts: up to MaxRuns runs, each a short pattern once or LongRun times.
CitationTexts ==
    LET runs == {Rep(pat, n) : pat \in {<<"a", " ">>, <<"A">>, <<"I.">>, <<"b">>},
                               n \in {1, LongRun}}
    IN  UNION {{Concat(parts) : parts \in [1 .. n -> runs]} : n \in 0 .. MaxRuns}

\* The query terms: words, a word of the other case, and a phrase of LongRun
\* one-letter words.
CitationTerms ==
    {<<"b">>, <<"a">>, <<"A", " ", "B">>, strip(Rep(<<"a", " ">>, LongRun))}

InitCitations ==
    /\ scenario = "ok" /\ initial = "empty" /\ Constructed
    /\ \E chunk_text \in CitationTexts, n \in 0 .. MaxTerms, max_citations \in {1, 2} :
       \E query_terms \in [1 .. n -> CitationTerms] :
          call = [fn |-> "extract_citations", pc |-> "called", chunk_text |-> chunk_text,
                  query_terms |-> query_terms, max_citations |-> max_citations,
                  raised |-> "none", citations |-> <<>>]

extract_citations_call ==
    /\ call.fn = "extract_citations"
    /\ call.pc = "called"
    /\ LET r == extract_citations(call.chunk_text, call.query_terms, call.max_citations)
       IN  call' = [call EXCEPT !.pc = IF r.raised = "none" THEN "returned" ELSE "raised",
                                !.raised = r.raised, !.citations = r.citations]
    /\ UNCHANGED packVars

SpecCitations == InitCitations /\ [][extract_citations_call]_vars


\* ------------------------------------------------------------------------
\* retrieval/persistence.py, retrieval/api.py: hybrid_run and its loaders
\* ------------------------------------------------------------------------
\* Invocations of hybrid_run.
MaxInvocations == 2

\* The hits hybrid_retrieve hands over (after tests/test_retrieval_persistence.py,
\* with the two citations of c2 in either order): chunk_id, score and the two
\* sources in tenths, <<>> for None, and the citations in their order.
RunHits ==
    LET hit(c, s, b, d, q) ==
            [chunk_id |-> c, score |-> s, fts_bm25 |-> b, vector_distance |-> d,
             citations |-> q]
    IN  {hit("c1", 9, <<2>>, <<3>>, <<"Q1">>),
         hit("c2", 8, <<>>, <<1>>, <<"Q2a", "Q2b">>),
         hit("c2", 7, <<12>>, <<>>, <<"Q2b", "Q2a">>)}

\* Lists of hits without a chunk_id twice, as merge_and_rank returns them.
RunHitLists ==
    {hits \in UNION {[1 .. n -> RunHits] : n \in 0 .. Cardinality(RunHits)} :
        \A i, j \in 1 .. Len(hits) : hits[i].chunk_id = hits[j].chunk_id => i = j}

\* The rows of a list of row sets in the order of a key (ORDER BY key ASC).
RECURSIVE OrderBy(_, _)
OrderBy(rows, key) ==
    IF rows = {} THEN <<>>
    ELSE LET r == CHOOSE r \in rows : \A o \in rows : r[key] <= o[key]
         IN  <<r>> \o OrderBy(rows \ {r}, key)

\* A loader that orders the hits by their row id and leaves the citations of a hit
\* in no order.
load_run_hits_by_id(db, run_id) ==
    LET rows == OrderBy({h \in db.hits : h.run_id = run_id}, "id")
    IN  [k \in 1 .. Len(rows) |->
           LET cit_rows == OrderBy({c \in db.citations : c.hit_id = rows[k].id}, "hit_id")
           IN  [chunk_id |-> rows[k].chunk_id, score |-> rows[k].score,
                fts_bm25 |-> rows[k].fts_bm25,
                vector_distance |-> rows[k].vector_distance,
                citations |-> [i \in 1 .. Len(cit_rows) |-> cit_rows[i].quote]]]

\* load_run_hits, lines 123-159, on the committed rows.
load_run_hits(db, run_id) ==
    LET rows == OrderBy({h \in db.hits : h.run_id = run_id}, "rank")
    IN  [k \in 1 .. Len(rows) |->
           LET cit_rows == OrderBy({c \in db.citations : c.hit_id = rows[k].id}, "idx")
           IN  [chunk_id |-> rows[k].chunk_id, score |-> rows[k].score,
                fts_bm25 |-> rows[k].fts_bm25,
                vector_distance |-> rows[k].vector_distance,
                citations |-> [i \in 1 .. Len(cit_rows) |-> cit_rows[i].quote]]]

\* The database holds no run; no request is being served.  db are the committed
\* rows, txn the rows of the open transaction, given[r] the hits run r was called
\* with, persisted the runs whose persist_run_results has returned, loaded what
\* the last GET runs/{run_id} found and which runs were persisted by then.
InitRuns ==
    /\ scenario = "ok" /\ initial = "empty" /\ Constructed
    /\ call = [fn |-> "hybrid_run", pc |-> "idle", run_id |-> 0, hits |-> <<>>,
               db |-> [runs |-> {}, hits |-> {}, citations |-> {}],
               txn |-> [hits |-> {}, citations |-> {}],
               given |-> <<>>, persisted |-> {},
               loaded |-> [run_id |-> 0, found |-> FALSE, hits |-> <<>>, after |-> {}]]

\* api.py lines 324-341: a request arrives and hybrid_retrieve returns its hits.
retrieval_hybrid_run(hits) ==
    /\ call.fn = "hybrid_run"
    /\ call.pc = "idle"
    /\ Len(call.given) < MaxInvocations
    /\ call' = [call EXCEPT !.pc = "create_run", !.hits = hits]
    /\ UNCHANGED packVars

\* create_run, lines 20-56: a new run_id (uuid4), and the run row is inserted and
\* committed (with conn).
create_run ==
    /\ call.fn = "hybrid_run"
    /\ call.pc = "create_run"
    /\ call' = [call EXCEPT !.pc = "persist",
                            !.run_id = Len(call.given) + 1,
                            !.given = Append(@, call.hits),
                            !.db.runs = @ \cup {Len(call.given) + 1}]
    /\ UNCHANGED packVars

\* persist_run_results, lines 68-93: one turn of the loop inserts the hit row of
\* the next rank and the citation rows of that hit into the open transaction.
persist_hit ==
    /\ call.fn = "hybrid_run"
    /\ call.pc = "persist"
    /\ LET rank == Cardinality(call.txn.hits)
           h == call.hits[rank + 1]
           hit_id == Cardinality(call.db.hits) + rank + 1
       IN  /\ rank < Len(call.hits)
           /\ call' = [call EXCEPT
                 !.txn.hits = @ \cup
                     {[id |-> hit_id, run_id |-> call.run_id, rank |-> rank,
                       chunk_id |-> h.chunk_id, score |-> h.score,
                       fts_bm25 |-> h.fts_bm25, vector_distance |-> h.vector_distance]},
                 !.txn.citations = @ \cup
                     {[hit_id |-> hit_id, idx |-> i - 1, quote |-> h.citations[i]] :
                         i \in 1 .. Len(h.citations)}]
    /\ UNCHANGED packVars

\* persist_run_results, line 67: the with block ends and the transaction commits;
\* api.py lines 354-377: the response is returned.
persist_commit ==
    /\ call.fn = "hybrid_run"
    /\ call.pc = "persist"
    /\ Cardinality(call.txn.hits) = Len(call.hits)
    /\ call' = [call EXCEPT !.pc = "idle",
                            !.db.hits = @ \cup call.txn.hits,
                            !.db.citations = @ \cup call.txn.citations,
                            !.txn = [hits |-> {}, citations |-> {}],
                            !.persisted = @ \cup {call.run_id}]
    /\ UNCHANGED packVars

\* The server process dies while it serves the request: the open transaction is
\* rolled back, what was committed stays.
server_killed ==
    /\ call.fn = "hybrid_run"
    /\ call.pc \in {"create_run", "persist"}
    /\ call' = [call EXCEPT !.pc = "idle", !.txn = [hits |-> {}, citations |-> {}]]
    /\ UNCHANGED packVars

\* api.py lines 380-393, retrieval_get_run on another connection: load_run, then
\* load_run_hits.
retrieval_get_run(run_id) ==
    /\ call.fn = "hybrid_run"
    /\ call' = [call EXCEPT !.loaded =
                  [run_id |-> run_id, found |-> run_id \in call.db.runs,
                   hits |-> IF run_id \in call.db.runs
                            THEN load_run_hits(call.db, run_id) ELSE <<>>,
                   after |-> call.persisted]]
    /\ UNCHANGED packVars

NextRuns ==
    \/ \E hits \in RunHitLists : retrieval_hybrid_run(hits)
    \/ create_run
    \/ persist_hit
    \/ persist_commit
    \/ server_killed
    \/ \E run_id \in 1 .. MaxInvocations : retrieval_get_run(run_id)

SpecRuns == InitRuns /\ [][NextRuns]_vars


\* ------------------------------------------------------------------------
\* retrieval/fts_retrieval.py, vector_retrieval.py, hybrid_retrieval.py: filters
\* ------------------------------------------------------------------------
\* case_documents: mime and the date part of created_at_utc (a day number) by id.
CaseDocuments ==
    [d \in {"1", "2"} |->
        IF d = "1" THEN [mime |-> "pdf", created |-> 1]
        ELSE [mime |-> "txt", created |-> 3]]

\* document_chunks: chunk id and the document of the chunk.
DocumentChunks ==
    {[chunk_id |-> "k1", practice_doc_id |-> "1"],
     [chunk_id |-> "k2", practice_doc_id |-> "2"]}

\* FtsFilter, lines 18-35: "None" and day 0 stand for None, tags {} for None or [].
FtsFilter ==
    [practice_doc_id : {"None", "1"}, doc_type : {"None", "pdf"},
     court : {"None", "LAT"}, date_from : {0, 2}, date_to : {0, 2},
     tags : {{}, {"t"}}]

\* fts_search, lines 58-101, on the chunks the MATCH selects; the hits as a set
\* (ORDER BY and LIMIT choose among the rows the WHERE clause leaves).
fts_search(matches, query, flt) ==
    IF query = "" THEN [exc |-> "ok", hits |-> {}]
    ELSE IF flt.court # "None" THEN [exc |-> "ValueError", hits |-> {}]
    ELSE IF flt.tags # {} THEN [exc |-> "ValueError", hits |-> {}]
    ELSE [exc |-> "ok",
          hits |-> {c \in matches :
              LET cd == CaseDocuments[c.practice_doc_id]
              IN  /\ flt.practice_doc_id # "None" => c.practice_doc_id = flt.practice_doc_id
                  /\ flt.doc_type # "None" => cd.mime = flt.doc_type
                  /\ flt.date_from # 0 => cd.created >= flt.date_from
                  /\ flt.date_to # 0 => cd.created <= flt.date_to}]

\* vector_retrieve, lines 108-135, on the chunks the index search returns; flt is
\* the practice_doc_id of a VectorFilter.
vector_retrieve(pairs, query, flt) ==
    IF query = "" THEN {}
    ELSE {c \in pairs : flt # "None" => c.practice_doc_id = flt}

\* hybrid_retrieve, lines 254-282; configured: the three environment variables of
\* the vector side are set.
hybrid_retrieve(matches, pairs, query, filters, use_fts, use_vector, configured) ==
    IF query = "" THEN [exc |-> "ok", hits |-> {}]
    ELSE LET fts == IF use_fts THEN fts_search(matches, query, filters)
                    ELSE [exc |-> "ok", hits |-> {}]
             vec_hits == IF use_vector /\ configured
                         THEN vector_retrieve(pairs, query, filters.practice_doc_id)
                         ELSE {}
         IN  IF fts.exc # "ok" THEN fts
             ELSE [exc |-> "ok", hits |-> fts.hits \cup vec_hits]

\* A request with its filters is about to be served by one of the three
\* operations; matches and pairs are what the two indexes hold for the query.
InitRetrieve ==
    /\ scenario = "ok" /\ initial = "empty" /\ Constructed
    /\ \E op \in {"fts", "vector", "hybrid"}, query \in {"", "q"}, flt \in FtsFilter,
          matches \in SUBSET DocumentChunks, pairs \in SUBSET DocumentChunks,
          use_fts \in BOOLEAN, use_vector \in BOOLEAN, configured \in BOOLEAN :
          /\ op = "fts" => pairs = {}
          /\ op = "vector" => matches = {}
          /\ op # "hybrid" => use_fts /\ use_vector /\ configured
          /\ call = [fn |-> "retrieve", pc |-> "ready", op |-> op, query |-> query,
                     filters |-> flt, matches |-> matches, pairs |-> pairs,
                     use_fts |-> use_fts, use_vector |-> use_vector,
                     configured |-> configured,
                     result |-> [exc |-> "ok", hits |-> {}]]

\* api.py lines 110-136: POST /retrieval/fts.
retrieval_fts ==
    /\ call.fn = "retrieve" /\ call.pc = "ready" /\ call.op = "fts"
    /\ call' = [call EXCEPT !.pc = "done",
                   !.result = fts_search(call.matches, call.query, call.filters)]
    /\ UNCHANGED packVars

\* api.py lines 251-260: POST /retrieval/vector takes practice_doc_id out of the
\* filters of the request and nothing else.
retrieval_vector ==
    /\ call.fn = "retrieve" /\ call.pc = "ready" /\ call.op = "vector"
    /\ call' = [call EXCEPT !.pc = "done",
                   !.result = [exc |-> "ok",
                               hits |-> vector_retrieve(call.pairs, call.query,
                                                        call.filters.practice_doc_id)]]
    /\ UNCHANGED packVars

\* api.py lines 282-298: POST /retrieval/hybrid.
retrieval_hybrid ==
    /\ call.fn = "retrieve" /\ call.pc = "ready" /\ call.op = "hybrid"
    /\ call' = [call EXCEPT !.pc = "done",
                   !.result = hybrid_retrieve(call.matches, call.pairs, call.query,
                                              call.filters, call.use_fts,
                                              call.use_vector, call.configured)]
    /\ UNCHANGED packVars

NextRetrieve == retrieval_fts \/ retrieval_vector \/ retrieval_hybrid

SpecRetrieve == InitRetrieve /\ [][NextRetrieve]_vars



\* ------------------------------------------------------------------------
\* retrieval/query_builder.py: build_query_plan
\* ------------------------------------------------------------------------
\* Strings are sequences of characters; the only whitespace of the model is " ".
\* The largest K of a call.
MaxK == 4

\* re.sub(r"\s+", " ", s): every run of whitespace becomes one space.
RECURSIVE squeeze(_)
squeeze(s) ==
    IF Len(s) <= 1 THEN s
    ELSE LET l == squeeze(SubSeq(s, 1, Len(s) \div 2))
             r == squeeze(SubSeq(s, Len(s) \div 2 + 1, Len(s)))
         IN  IF l[Len(l)] = " " /\ r[1] = " " THEN l \o Tail(r) ELSE l \o r

\* _collapse_ws, lines 39-40.
_collapse_ws(s) == strip(squeeze(s))

\* _dedup_key, lines 43-47; casefold() is lower() on the characters of the model.
_dedup_key(text) ==
    LET t == strip(text)
        inner == IF Len(t) >= 2 /\ t[1] = "\"" /\ t[Len(t)] = "\""
                 THEN SubSeq(t, 2, Len(t) - 1) ELSE t
    IN  str_lower(_collapse_ws(inner))

\* _quote_phrase, lines 50-53.
_quote_phrase(s) ==
    <<"\"">> \o [i \in 1 .. Len(s) |-> IF s[i] = "\"" THEN "'" ELSE s[i]] \o <<"\"">>

\* str.rstrip()
rstrip(s) ==
    LET inked == {i \in 1 .. Len(s) : s[i] # " "}
    IN  IF inked = {} THEN <<>>
        ELSE SubSeq(s, 1, CHOOSE i \in inked : \A k \in i + 1 .. Len(s) : s[k] = " ")

\* _truncate_phrase, lines 56-66.
_truncate_phrase(s, max_len) ==
    IF Len(s) <= max_len THEN s
    ELSE LET cut == SubSeq(s, 1, max_len)
             spaces == {i \in 1 .. max_len : cut[i] = " "}
             rfind == CHOOSE i \in spaces : \A k \in i + 1 .. max_len : cut[k] # " "
             cut2 == IF spaces = {} THEN <<>> ELSE rstrip(SubSeq(cut, 1, rfind - 1))
         IN  IF cut2 # <<>> THEN cut2 ELSE rstrip(cut)

\* The characters of s at the positions keep, in their order.
Kept(s, keep) ==
    [j \in 1 .. Cardinality(keep) |->
        s[CHOOSE i \in keep : Cardinality({x \in keep : x <= i}) = j]]

\* _standardize_norm, lines 69-75: whitespace around dots goes, and a digit
\* directly before "str." (in any case) gets a space behind it.
_standardize_norm(s) ==
    LET s1 == _collapse_ws(s)
        s2 == Kept(s1, {i \in 1 .. Len(s1) :
                          ~ (/\ s1[i] = " "
                             /\ \/ (i < Len(s1) /\ s1[i + 1] = ".")
                                \/ (i > 1 /\ s1[i - 1] = "."))})
        at == {i \in 1 .. Len(s2) - 4 :
                  /\ s2[i] \in {"2", "6"}
                  /\ s2[i + 1] \in {"s", "S"} /\ s2[i + 2] \in {"t", "T"}
                  /\ s2[i + 3] \in {"r", "R"} /\ s2[i + 4] = "."}
        src(j) == {i \in 1 .. Len(s2) : i + Cardinality({p \in at : p < i}) = j}
        s3 == [j \in 1 .. Len(s2) + Cardinality(at) |->
                  IF src(j) = {} THEN " " ELSE s2[CHOOSE i \in src(j) : TRUE]]
    IN  _collapse_ws(s3)

\* add_atom before the check of seen was written: every non-empty text is taken.
add_atom_no_dedup(st, text, kind, weight) ==
    LET t == _collapse_ws(text)
    IN  IF t = <<>> THEN st
        ELSE [atoms |-> Append(st.atoms, [text |-> t, kind |-> kind, weight |-> weight]),
              seen |-> st.seen \cup {_dedup_key(t)}]

\* add_atom, lines 114-122, on st = [atoms, seen]; weights in tenths.
add_atom(st, text, kind, weight) ==
    LET t == _collapse_ws(text)
        key == _dedup_key(t)
    IN  IF t = <<>> THEN st
        ELSE IF key \in st.seen THEN st
        ELSE [atoms |-> Append(st.atoms, [text |-> t, kind |-> kind, weight |-> weight]),
              seen |-> st.seen \cup {key}]

\* The text of a norm, lines 137-151, <<>> where the loop continues without one.
NormText(n) ==
    CASE n.type = "str" -> _standardize_norm(n.s)
      [] n.type = "dict" /\ n.title # <<>> /\ n.article # <<>> ->
            _standardize_norm(n.title \o <<" ">> \o n.article)
      [] n.type = "dict" /\ n.title # <<>> -> _standardize_norm(n.title)
      [] n.type = "dict" /\ n.article # <<>> -> _standardize_norm(n.article)
      [] OTHER -> <<>>

\* " ".join(kws)
RECURSIVE join(_)
join(kws) ==
    IF kws = <<>> THEN <<>>
    ELSE IF Len(kws) = 1 THEN kws[1]
    ELSE kws[1] \o <<" ">> \o join(Tail(kws))

\* Lists of norms of a case frame: strings and dicts, with a duplicate in another
\* case and spacing, a digit before "Str.", a dict that names the text of a short
\* summary, and an empty dict.
NormLists ==
    LET str(s) == [type |-> "str", s |-> s, title |-> <<>>, article |-> <<>>]
        dict(t, a) == [type |-> "dict", s |-> <<>>, title |-> t, article |-> a]
        ck == str(<<"C", "K", " ", "6", ".", " ", "2">>)
        ck2 == str(<<"c", "k", " ", " ", "6", ".", "2">>)
        six == str(<<"6", "S", "t", "r", ".">>)
    IN  {<<>>, <<ck>>, <<ck, ck2>>, <<six, dict(<<"a">>, <<"b">>)>>,
         <<dict(<<>>, <<>>), ck2>>, <<dict(<<"a">>, <<>>), six, ck>>}

\* Case frames: a short and a long summary, the long one again in capitals and
\* the short one again in other spacing among the issues and questions.
CaseFrames ==
    LET long == Rep(<<"a", "b", " ">>, 57)
        LONG == Rep(<<"A", "B", " ">>, 57)
        ab == <<"a", " ", " ", "b">>
        none == [given |-> FALSE, v |-> <<>>]
        some(v) == [given |-> TRUE, v |-> v]
    IN  [summary : {none, some(ab), some(long)},
         norms : {none} \cup {some(v) : v \in NormLists},
         claims : {<<>>, << <<"\"", "c", "\"">> >>},
         issues : {<<>>, <<LONG>>, <<LONG, <<"d">> >>, << <<"d">>, <<" ">>, <<"e">> >>},
         questions : {<<>>, << <<"A", " ", "B">> >>},
         keywords : {none, some(<< <<"a">>, <<" ">>, <<"b">> >>), some(<< <<"k">> >>)}]

\* A case frame and a K are about to be planned.  A field of the case frame that
\* is missing or is no string / no list is [given |-> FALSE]; st are the atoms and
\* the seen keys of the call, i the place in the list a loop is at.
InitPlan ==
    /\ scenario = "ok" /\ initial = "empty" /\ Constructed
    /\ \E case_frame \in CaseFrames, k \in 0 .. MaxK :
          call = [fn |-> "build_query_plan", pc |-> "ready", case_frame |-> case_frame,
                  k |-> k, st |-> [atoms |-> <<>>, seen |-> {}], i |-> 1, taken |-> 0,
                  atoms |-> <<>>]

\* build_query_plan, lines 106-112: the empty plan for k <= 0.
bqp_enter ==
    /\ call.fn = "build_query_plan" /\ call.pc = "ready"
    /\ call' = [call EXCEPT !.pc = IF call.k <= 0 THEN "done" ELSE "summary"]
    /\ UNCHANGED packVars

\* Lines 125-129: the summary as a quoted phrase of weight 1.4.
bqp_summary ==
    /\ call.fn = "build_query_plan" /\ call.pc = "summary"
    /\ LET s == _truncate_phrase(_collapse_ws(call.case_frame.summary.v), 160)
       IN  call' = [call EXCEPT
                      !.pc = "norms",
                      !.st = IF call.case_frame.summary.given /\ s # <<>>
                             THEN add_atom(@, _quote_phrase(s), "phrase", 14) ELSE @]
    /\ UNCHANGED packVars

\* Lines 132-153: one turn of the loop over the norms, or its end.
bqp_norm ==
    /\ call.fn = "build_query_plan" /\ call.pc = "norms"
    /\ LET norms == call.case_frame.norms
       IN  IF norms.given /\ call.i <= Len(norms.v)
           THEN LET txt == NormText(norms.v[call.i])
                IN  call' = [call EXCEPT
                               !.i = @ + 1,
                               !.st = IF txt # <<>> THEN add_atom(@, txt, "norm", 13) ELSE @]
           ELSE call' = [call EXCEPT !.pc = "phrases", !.i = 1]
    /\ UNCHANGED packVars

\* Lines 156-171: one turn of the loop over the claims, issues and questions, of
\* which at most two are taken, or its end.
bqp_phrase ==
    /\ call.fn = "build_query_plan" /\ call.pc = "phrases"
    /\ LET phrase_sources == call.case_frame.claims \o call.case_frame.issues
                                \o call.case_frame.questions
       IN  IF call.i <= Len(phrase_sources) /\ call.taken < 2
           THEN LET t == _truncate_phrase(_collapse_ws(phrase_sources[call.i]), 160)
                    after == IF t = <<>> THEN call.st
                             ELSE add_atom(call.st, _quote_phrase(t), "phrase", 12)
                IN  call' = [call EXCEPT
                               !.i = @ + 1, !.st = after,
                               !.taken = IF Len(after.atoms) # Len(call.st.atoms)
                                         THEN @ + 1 ELSE @]
           ELSE call' = [call EXCEPT !.pc = "keywords"]
    /\ UNCHANGED packVars

\* Lines 174-181: the keywords as one atom of weight 1.0.
bqp_keywords ==
    /\ call.fn = "build_query_plan" /\ call.pc = "keywords"
    /\ LET keywords == call.case_frame.keywords
           kws == SelectSeq([i \in 1 .. Len(keywords.v) |-> _collapse_ws(keywords.v[i])],
                            LAMBDA x : x # <<>>)
       IN  call' = [call EXCEPT
                      !.pc = "cap",
                      !.st = IF keywords.given /\ kws # <<>>
                             THEN add_atom(@, join(kws), "keywords", 10) ELSE @]
    /\ UNCHANGED packVars

\* Lines 184-185: atoms[:k], and the plan is returned.
bqp_cap ==
    /\ call.fn = "build_query_plan" /\ call.pc = "cap"
    /\ call' = [call EXCEPT
                   !.pc = "done",
                   !.atoms = SubSeq(call.st.atoms, 1,
                                    IF call.k < Len(call.st.atoms) THEN call.k
                                    ELSE Len(call.st.atoms))]
    /\ UNCHANGED packVars

NextPlan ==
    bqp_enter \/ bqp_summary \/ bqp_norm \/ bqp_phrase \/ bqp_keywords \/ bqp_cap

SpecPlan == InitPlan /\ [][NextPlan]_vars



\* ------------------------------------------------------------------------
\* Properties
\* ------------------------------------------------------------------------
\* The state a reader of state.json finds.
PersistedState == _load_state(stateFile).state

\* The call of the record was aborted: it raised, or its process was killed.
Aborted(h) == h.result \notin {"none", "ok", "busy"}

Raised(h) == h.result \notin {"none", "ok", "busy", "killed"}

\* C2 (failure leaves ACTIVE unchanged): when run_once raises, the persisted state
\* is FAILED_HARD or FAILED_RETRYABLE and ACTIVE is what it was when the call
\* started, whatever state.json held at that time.
C2_FailureLeavesActive ==
    \A p \in Procs :
        (hist[p].op = "run_once" /\ Raised(hist[p]))
          => /\ PersistedState \in {"FAILED_HARD", "FAILED_RETRYABLE"}
             /\ active = hist[p].startActive

\* The processes inside run_once, past the acquisition of the lock.
InRunOnce == {p \in Procs : proc[p].op = "run_once" /\ proc[p].pc # "idle"}

\* Process p calls run_once in this step.
StartsRunOnce(p) ==
    proc[p].pc = "idle" /\ ops' = ops + 1 /\ hist'[p].op = "run_once"

\* C3 (single writer): of two overlapping run_once calls on one data directory at
\* most one is past the acquisition of the lock at any moment; a run_once called
\* while the lock is held fails at once with "Updater lock already held", writes
\* nothing to state.json, ACTIVE, the cache or a staging directory, and leaves the
\* lock file of the holder in place.
C3_SingleWriter ==
    /\ [](Cardinality(InRunOnce) <= 1)
    /\ [][\A p \in Procs :
            (StartsRunOnce(p) /\ lock)
              => /\ hist'[p].result = "busy"
                 /\ proc'[p].pc = "idle"
                 /\ UNCHANGED <<lock, active, stateFile, dirs, nextDir>>]_vars

\* The second process was refused while the first was copying the artifact.
C3_Witness ==
    /\ hist[2].op = "run_once" /\ hist[2].result = "busy"
    /\ proc[1].op = "run_once" /\ proc[1].pc = "ro_copy" /\ lock

\* The positions of run_once inside _download (with the recording of cache_path)
\* and inside _apply.
DownloadPcs == {"ro_download", "ro_copy", "ro_cache_path"}

ApplyPcs ==
    {"ro_apply", "as_save", "as_copy", "as_manifest", "as_switch",
     "ad_copy", "ad_ops", "ad_final", "ad_switch", "adi_save", "adi_copy"}

\* The persisted state under which run_once is at each step of an update.
StepsUnderTheirState ==
    \A p \in Procs :
        proc[p].op = "run_once"
          => /\ proc[p].pc \in {"ro_check", "ro_plan", "ro_downloading"}
                  => stateFile.state = "CHECKING"
             /\ proc[p].pc \in DownloadPcs \cup {"ro_staging"}
                  => stateFile.state = "DOWNLOADING"
             /\ proc[p].pc = "ro_verifying" => stateFile.state = "STAGING"
             /\ proc[p].pc \in {"ro_verify", "ro_applying"} => stateFile.state = "VERIFYING"
             /\ proc[p].pc \in ApplyPcs \cup {"ro_cleanup"} => stateFile.state = "APPLYING"
             /\ proc[p].pc \in {"ro_rmcache", "ro_idle"} => stateFile.state = "CLEANUP"

\* C4 (update ordering): in a run_once that finds an update the persisted state
\* goes through CHECKING, DOWNLOADING, STAGING, VERIFYING, APPLYING, CLEANUP and
\* IDLE in that order, each written before its step runs; the call replaces ACTIVE
\* only while the persisted state is APPLYING and after _verify has succeeded;
\* and the cache is removed only after the switch.
C4_UpdateOrdering ==
    /\ StepsUnderTheirState
    /\ \A p \in Procs :
          (hist[p].op = "run_once" /\ hist[p].recorded # 0)
            => /\ hist[p].activeIn \subseteq {<<"APPLYING", TRUE>>}
               /\ proc[p].pc \in ApplyPcs => hist[p].verified
               /\ proc[p].pc \in {"ro_verifying", "ro_verify", "ro_applying", "ro_cleanup"}
                                   \cup ApplyPcs
                    => dirs[proc[p].cache].kind = "cache"
               /\ proc[p].pc \in {"ro_rmcache", "ro_idle"} => hist[p].switched = active
               /\ hist[p].result = "ok" => /\ stateFile.state = "IDLE"
                                           /\ hist[p].switched = active

\* C5 (the ACTIVE switch is the commit point): once the apply step of run_once has
\* switched ACTIVE, a crash or failure at a later step of the call followed by
\* recover_on_startup leaves ACTIVE naming the new install and leaves the
\* directory of the new install in place.
C5_SwitchIsCommitPoint ==
    \A p \in Procs :
        (/\ hist[p].op = "recover" /\ hist[p].result = "ok"
         /\ hist[p].prev.op = "run_once" /\ Aborted(hist[p].prev)
         /\ hist[p].prev.switched # 0)
          => /\ active = hist[p].prev.switched
             /\ dirs[hist[p].prev.switched].kind # "none"

\* C6 (monotonic commit): a run_once that returns normally gives ACTIVE a new value
\* exactly once when it applies an update and not at all when the pack is up to
\* date, whatever state.json held when the call started.
C6_MonotonicCommit ==
    \A p \in Procs :
        (hist[p].op = "run_once" /\ hist[p].result = "ok")
          => hist[p].writes = (IF hist[p].switched # 0 THEN 1 ELSE 0)

\* The files of an install are those a snapshot manifest lists, with the sizes and
\* digests it gives.
InstallMatches(install, manifest) ==
    /\ install.kind # "none"
    /\ _list_pack_payload_files(install)
          = {_pack_rel_from_manifest_path(e.path) : e \in manifest.files}
    /\ \A e \in manifest.files :
          /\ st_size(ContentAt(install, _pack_rel_from_manifest_path(e.path))) = e.size
          /\ sha256_file(ContentAt(install, _pack_rel_from_manifest_path(e.path))) = e.sha256

\* C7 (the scenario of tests/test_updater_crash.py): on an empty data directory and
\* a remote offering v2 as snapshot and as delta from v1, after install_snapshot
\* of v1, a run_once with crash_mid_copy injected and recover_on_startup, a
\* run_once without fault returns normally, leaves the persisted state IDLE and
\* leaves ACTIVE naming an install whose files match the v2 manifest.
C7_CrashThenUpdate ==
    (hist[1].script = 4 /\ hist[1].result # "none" /\ scenario = "ok")
      => /\ hist[1].result = "ok"
         /\ PersistedState = "IDLE"
         /\ active # 0
         /\ InstallMatches(dirs[active], Snapshot2.manifest)

\* The positions of a call inside recover_on_startup.
RecoverPcs == {"rec_load", "rec_active", "rec_staging", "rec_cache", "rec_save"}

\* Process p has run recover_on_startup to its end: the call has returned, or
\* run_once is about to write CHECKING.
Recovered(p) ==
    \/ hist[p].op = "recover" /\ hist[p].result = "ok"
    \/ proc[p].op = "run_once" /\ proc[p].pc = "ro_checking"

\* C8 (recovery): recover_on_startup changes nothing (state.json, ACTIVE, cache
\* and staging directories) when the persisted state is IDLE; from every other
\* persisted state, a state.json that does not parse included, it ends with the
\* persisted state IDLE and with the recorded staging_dir and cache_path removed.
C8_Recovery ==
    /\ [][\A p \in Procs :
            (proc[p].pc = "rec_load" /\ PersistedState = "IDLE")
              => /\ proc'[p].pc \notin RecoverPcs
                 /\ UNCHANGED <<stateFile, active, dirs, nextDir>>]_vars
    /\ [](\A p \in Procs :
            (Recovered(p) /\ hist[p].startState # "IDLE")
              => /\ stateFile.state = "IDLE"
                 /\ stateFile.staging_dir # 0 => dirs[stateFile.staging_dir].kind = "none"
                 /\ stateFile.cache_path # 0 => dirs[stateFile.cache_path].kind = "none")

\* A recovery that found the staging directory and the cache of a failed update
\* on disk and has returned.
C8_Witness ==
    /\ hist[1].op = "recover" /\ hist[1].result = "ok"
    /\ hist[1].startState = "FAILED_RETRYABLE"
    /\ stateFile.staging_dir # 0 /\ stateFile.cache_path # 0
    /\ {stateFile.staging_dir, stateFile.cache_path} \subseteq hist[1].startDirs

\* The causes of a failure the spec calls integrity failures, and those it calls
\* transient.
IntegrityFailures ==
    {"bad_signature", "size_mismatch", "sha_mismatch", "missing_file", "from_mismatch"}

TransientFailures == {"io_error", "injected_crash", "remote_artifact_missing"}

\* C9 (failure classification): a run_once that fails by a bad signature, a size
\* or SHA-256 mismatch, a missing listed file or a mismatch with the delta's
\* 'from' leaves the persisted state FAILED_HARD; one that fails by an I/O error,
\* a partial copy or an absent remote artifact leaves it FAILED_RETRYABLE; the
\* error is recorded in state.json and the recorded cache and staging directories
\* are left on disk.
C9_FailureClassification ==
    \A p \in Procs :
        (hist[p].op = "run_once" /\ Raised(hist[p]))
          => /\ hist[p].result \in IntegrityFailures => stateFile.state = "FAILED_HARD"
             /\ hist[p].result \in TransientFailures => stateFile.state = "FAILED_RETRYABLE"
             /\ stateFile.error = hist[p].result
             /\ stateFile.staging_dir # 0 => dirs[stateFile.staging_dir].kind # "none"
             /\ stateFile.cache_path # 0 => dirs[stateFile.cache_path].kind # "none"

\* The plan the spec's selection rule gives for the active manifest sha.
PlanByRule(active_sha, latest) ==
    IF active_sha = latest.to_manifest_sha256 THEN "none"
    ELSE IF latest.delta /\ latest.delta_from_manifest_sha256 = active_sha THEN "delta"
    ELSE "snapshot"

\* The plan check_updates returned is the one the selection rule gives, and a
\* run_once without a plan raises nothing and leaves the state IDLE.
NoPlanReturns ==
    \A p \in Procs :
        /\ (proc[p].op = "run_once" /\ proc[p].pc \in {"ro_uptodate", "ro_plan"})
              => proc[p].plan
                   = PlanByRule(canonical_manifest_sha256(dirs[active].manifest),
                                Latest(scenario))
        /\ (proc[p].op = "run_once" /\ proc[p].pc = "ro_release" /\ proc[p].plan = "none")
              => proc[p].exc = "none"
        /\ (hist[p].op = "run_once" /\ hist[p].result = "ok" /\ hist[p].recorded = 0)
              => stateFile.state = "IDLE"

\* The steps of a run_once from the end of its recovery to its return without a
\* plan.
NoPlanStep(p) ==
    /\ proc[p].op = "run_once"
    /\ \/ proc[p].pc \in {"ro_checking", "ro_check", "ro_uptodate"}
       \/ proc[p].pc = "ro_release" /\ proc[p].plan = "none"

\* C10 (update plan selection): check_updates returns no plan exactly when the
\* manifest sha of the active install equals latest.to_manifest_sha256, a delta
\* plan exactly when latest.json offers a delta from that sha, and a snapshot plan
\* in every other case; with no plan run_once returns normally with the state
\* IDLE, and from the end of its recovery on it changes neither ACTIVE nor a
\* cache or staging directory.
C10_PlanSelection ==
    /\ []NoPlanReturns
    /\ [][\A p \in Procs :
             NoPlanStep(p) => active' = active /\ dirs' = dirs /\ nextDir' = nextDir]_vars

\* C10 with ACTIVE and the directories compared with what they were when
\* run_once was called: the recovery run_once starts with removes the cache and
\* staging directories a failed run recorded and rewrites ACTIVE.
C10_UnchangedSinceCall ==
    \A p \in Procs :
        (hist[p].op = "run_once" /\ hist[p].result = "ok" /\ hist[p].recorded = 0)
          => /\ active = hist[p].startActive
             /\ Existing(dirs) = hist[p].startDirs

\* A run_once that found the pack up to date and has returned.
C10_Witness ==
    /\ hist[1].op = "run_once" /\ hist[1].result = "ok" /\ hist[1].recorded = 0
    /\ canonical_manifest_sha256(dirs[active].manifest) = Latest(scenario).to_manifest_sha256

\* The tampers that change manifest.json without a signature of the publisher's
\* key over it, or a file the manifest lists.
DetectedTampers == {t \in TamperNames : Tampers[t].kind # "unlisted_file"}

\* C11 (tamper detection): verify_snapshot fails on a snapshot whose manifest.json
\* was changed without re-signing or in which a listed file is missing, is not a
\* regular file or has another size or another SHA-256; install_snapshot and the
\* snapshot path of the updater go on to copy and switch only from a snapshot
\* that verify_snapshot accepts, and on a tampered snapshot they raise with
\* ACTIVE as it was.
C11_TamperDetection ==
    \A p \in Procs :
        /\ scenario \in DetectedTampers
              => verify_snapshot(RemoteSnapshot(scenario, "v2"), "pub") # "ok"
        /\ proc[p].pc \in {"is_copy", "is_switch"}
              => verify_snapshot(RemoteSnapshot(scenario, proc[p].snapshot), "pub") = "ok"
        /\ (proc[p].op = "run_once" /\ proc[p].plan = "snapshot"
                /\ proc[p].pc \in ApplyPcs \cup {"ro_applying"})
              => /\ verify_snapshot(dirs[proc[p].cache], "pub") = "ok"
                 /\ verify_snapshot(RemoteSnapshot(scenario, Latest(scenario).snapshot_path),
                                     "pub") = "ok"
        /\ (scenario \in DetectedTampers /\ hist[p].result \notin {"none", "killed", "busy"}
                /\ \/ hist[p].op = "install_snapshot" /\ hist[p].arg = "v2"
                   \/ hist[p].op = "run_once" /\ hist[p].recorded # 0)
              => /\ hist[p].result # "ok"
                 /\ hist[p].switched = 0

\* install_snapshot has refused a snapshot in which a listed path holds a
\* directory.
C11_Witness ==
    /\ scenario \in TamperNames
    /\ Tampers[scenario].kind = "directory"
    /\ hist[1].op = "install_snapshot" /\ hist[1].arg = "v2"
    /\ hist[1].result = "missing_file"
    /\ active = hist[1].startActive

\* An install_snapshot that has returned and whose install is the active one.
Installed(p) ==
    /\ hist[p].op = "install_snapshot" /\ hist[p].result = "ok"
    /\ active = hist[p].switched

\* C12 (installation): after a successful install_snapshot the payload files of
\* the active install are the files under payload/ of the snapshot, and every
\* file of the active install has the SHA-256 the verified manifest records for
\* it.
C12_Installation ==
    \A p \in Procs :
        Installed(p)
          => LET snapshot == RemoteSnapshot(scenario, hist[p].arg)
                 install == dirs[active]
             IN  /\ _list_pack_payload_files(install)
                       = {Tail(f.path) : f \in PayloadFiles(snapshot)}
                 /\ \A f \in install.files :
                       \E e \in snapshot.manifest.files :
                          /\ _pack_rel_from_manifest_path(e.path) = f.path
                          /\ e.sha256 = sha256_file(f.content)

\* The install a call switched ACTIVE to is the active one.
SwitchedBy(p, names) ==
    /\ hist[p].op \in names
    /\ hist[p].switched # 0
    /\ active = hist[p].switched

\* The install holds manifest.json and manifest.sig, and they are those of the
\* version its files are.
HoldsItsManifest(install) ==
    /\ install.manifest # NoManifest
    /\ install.sig = sign_manifest("priv", install.manifest)
    /\ InstallMatches(install, install.manifest)

\* C13 (manifest of the active install): after every operation that switches
\* ACTIVE (install_snapshot, the snapshot apply of the updater, apply_delta) the
\* newly active install holds manifest.json and manifest.sig of the version its
\* files are, so that its manifest sha is the manifest sha of that version.
C13_ActiveHoldsManifest ==
    \A p \in Procs :
        SwitchedBy(p, {"install_snapshot", "run_once", "apply_delta"})
          => HoldsItsManifest(dirs[active])

\* apply_delta was called with the delta v1 -> v2 as build_delta made it (and,
\* when it is given one, the TO snapshot as built) and has ended.
AppliedBuiltDelta(p) ==
    /\ hist[p].op = "apply_delta"
    /\ hist[p].result \notin {"none", "killed"}
    /\ RemoteDelta(scenario) = Delta12
    /\ hist[p].arg = "to_snapshot_dir"
          => RemoteSnapshot(scenario, Latest(scenario).latest_version) = Snapshot2

\* C14 (delta apply equivalence): with A = v1, B = v2 and the delta A -> B built
\* by build_delta, install_snapshot of A followed by apply_delta succeeds and
\* leaves an active install whose payload files and file contents are those of
\* an install of B.
C14_DeltaApplyEquivalence ==
    \A p \in Procs :
        (/\ AppliedBuiltDelta(p)
         /\ hist[p].prev.op = "install_snapshot" /\ hist[p].prev.result = "ok"
         /\ hist[p].startActive = hist[p].prev.switched
         /\ dirs[hist[p].startActive].files = PackInstall(Snapshot1).files)
          => /\ hist[p].result = "ok"
             /\ dirs[active].files = PackInstall(Snapshot2).files


\* ------------------------------------------------------------------------
\* C15 -- no citation, no claim.  When enforce_no_citation_no_claim has
\* returned (min_paths and min_total_claims at their defaults, any
\* min_citations_per_path): the paths of the output are, in the order of the
\* input, paths of the input whose supporting_citations count reaches the
\* threshold (exactly those of them that have claims); if no path remains,
\* insufficient_authority is true and missing_info is not empty; and the
\* response that was passed in still has the value it had at the call.
Grounded(path) ==
    path.supporting_citations >= call.min_citations_per_path /\ path.claims > 0

C15_NoCitationNoClaim ==
    (call.fn = "enforce_no_citation_no_claim" /\ call.pc = "returned"
        /\ call.min_paths = 1 /\ call.min_total_claims = 1)
    => LET out == Dump(call.heap, call.out)
       IN  /\ out.argument_paths = SelectSeq(call.given.argument_paths, Grounded)
           /\ \A i \in 1 .. Len(out.argument_paths) :
                 out.argument_paths[i].supporting_citations >= call.min_citations_per_path
           /\ out.argument_paths = <<>>
                 => out.insufficient_authority /\ out.missing_info # <<>>
           /\ Dump(call.heap, call.resp) = call.given

\* A call with threshold 2 on two paths with claims, the first with one citation
\* and the second with two: the first is dropped and the second is kept.
C15_Witness ==
    /\ call.fn = "enforce_no_citation_no_claim" /\ call.pc = "returned"
    /\ call.min_paths = 1 /\ call.min_total_claims = 1
    /\ call.min_citations_per_path = 2
    /\ Len(call.given.argument_paths) = 2
    /\ call.given.argument_paths[1] = ArgumentPath("Path A", 1, 1)
    /\ call.given.argument_paths[2] = ArgumentPath("Path B", 1, 2)
    /\ Len(call.out.argument_paths) = 1
    /\ call.heap[call.out.argument_paths[1]].title = "Path B"


\* ------------------------------------------------------------------------
\* C16 -- repair protocol.  generate_defense_directions calls the LLM once when
\* the first output parses and validates and twice otherwise, never more; it
\* returns the fallback object exactly when both outputs failed to parse or to
\* validate; and no output of the LLM makes it raise.
IsFallback(out) ==
    /\ out.insufficient_authority
    /\ out.argument_paths = <<>>
    /\ out.missing_info # <<>>
    /\ out.missing_info[1] = fallback("", "").missing_info[1]

RepairCounts ==
    call.fn = "generate_defense_directions"
    => /\ call.llm_calls <= 2
       /\ call.pc = "returned"
            => /\ call.llm_calls = (IF call.outputs[1] = "ok" THEN 1 ELSE 2)
               /\ IsFallback(call.out)
                    <=> (Len(call.outputs) = 2 /\ call.outputs[1] # "ok" /\ call.outputs[2] # "ok")

C16_RepairProtocol ==
    /\ RepairCounts
    /\ call.fn = "generate_defense_directions" => call.pc # "raised"


\* ------------------------------------------------------------------------
\* C17 -- generation with zero citations.  A call of
\* generate_defense_directions with an empty citations list that has returned,
\* whatever the LLM put out, returned insufficient_authority = true.
C17_ZeroCitations ==
    (call.fn = "generate_defense_directions" /\ call.pc = "returned"
        /\ call.citations = 0)
    => call.out.insufficient_authority

\* ------------------------------------------------------------------------
\* C18 -- audit isolation.  A call of generate_defense_directions that has
\* returned (first pass, repair, or fallback) made exactly one audit attempt,
\* which appended a row exactly when the sink works, and returned the object it
\* audited; and a call raises only with an exception of the parsing, which
\* comes before any audit: never because of the sink.
C18_AuditIsolation ==
    call.fn = "generate_defense_directions"
    => /\ call.pc = "returned"
            => /\ call.audits = 1
               /\ call.audit_rows = (IF call.sink = "ok" THEN 1 ELSE 0)
               /\ call.out = call.final
       /\ call.pc = "raised"
            => call.audits = 0 /\ call.error \in {"RecursionError", "ValueError"}

\* A call whose two outputs were invalid returned the fallback while the INSERT
\* of its audit failed.
C18_Witness ==
    /\ call.fn = "generate_defense_directions" /\ call.pc = "returned"
    /\ call.sink = "insert_error"
    /\ call.outputs = <<"JSONDecodeError", "ValidationError">>
    /\ IsFallback(call.out)
    /\ call.audits = 1 /\ call.audit_rows = 0


\* ------------------------------------------------------------------------
\* C19 -- hybrid ordering.  What merge_and_rank returns has at most top_n
\* entries, no chunk_id twice, each entry with the lowest bm25 and the lowest
\* distance of the hits of its chunk_id, and every entry sorts before the
\* entries after it: higher fused score first, then lower bm25 (entries without
\* bm25 last), then lower chunk_id.
RankedResult ==
    (call.fn = "merge_and_rank" /\ call.pc = "returned")
    => LET out == call.out
       IN  /\ Len(out) <= call.top_n
           /\ \A i, j \in 1 .. Len(out) : i < j =>
                 /\ out[i].chunk_id # out[j].chunk_id
                 /\ out[i].score.num * out[j].score.den >= out[j].score.num * out[i].score.den
                 /\ out[i].score.num * out[j].score.den = out[j].score.num * out[i].score.den
                      => \/ out[j].fts_bm25 = <<>> /\ out[i].fts_bm25 # <<>>
                         \/ out[i].fts_bm25 # <<>> /\ out[j].fts_bm25 # <<>>
                              /\ out[i].fts_bm25[1] < out[j].fts_bm25[1]
                         \/ out[i].fts_bm25 = out[j].fts_bm25
                              /\ \E a, b \in 1 .. Len(ChunkIds) :
                                    a < b /\ ChunkIds[a] = out[i].chunk_id
                                          /\ ChunkIds[b] = out[j].chunk_id
           /\ \A i \in 1 .. Len(out) :
                 /\ \A k \in 1 .. Len(call.fts_hits) :
                       call.fts_hits[k].chunk_id = out[i].chunk_id
                       => out[i].fts_bm25 # <<>> /\ out[i].fts_bm25[1] <= call.fts_hits[k].value
                 /\ \A k \in 1 .. Len(call.vec_hits) :
                       call.vec_hits[k].chunk_id = out[i].chunk_id
                       => out[i].vector_distance # <<>>
                          /\ out[i].vector_distance[1] <= call.vec_hits[k].value
                 /\ out[i].fts_bm25 # <<>>
                       => \E k \in 1 .. Len(call.fts_hits) :
                            call.fts_hits[k] = [chunk_id |-> out[i].chunk_id, value |-> out[i].fts_bm25[1]]
                 /\ out[i].vector_distance # <<>>
                       => \E k \in 1 .. Len(call.vec_hits) :
                            call.vec_hits[k] = [chunk_id |-> out[i].chunk_id,
                                                value |-> out[i].vector_distance[1]]

C19_HybridOrdering ==
    /\ RankedResult
    /\ call.fn = "merge_and_rank" => call.pc # "raised"

\* ------------------------------------------------------------------------
\* C20 -- score normalization.  For the hits passed to merge_and_rank, the
\* per-signal scores 1/(1+bm25) and 1/(1+distance) are defined and lie in
\* [0, 1], and of two bm25 values the lower one has no lower fts_score.
InUnitInterval(score) == 0 <= score.num /\ score.num <= score.den

C20_ScoreNormalization ==
    call.fn = "merge_and_rank"
    => /\ \A k \in 1 .. Len(call.fts_hits) :
             /\ 2 + call.fts_hits[k].value # 0
             /\ InUnitInterval(signal_score(<<call.fts_hits[k].value>>))
       /\ \A k \in 1 .. Len(call.vec_hits) :
             /\ 2 + call.vec_hits[k].value # 0
             /\ InUnitInterval(signal_score(<<call.vec_hits[k].value>>))
       /\ InUnitInterval(signal_score(<<>>))
       /\ \A k, l \in 1 .. Len(call.fts_hits) :
             call.fts_hits[k].value < call.fts_hits[l].value
             => LET lower == signal_score(<<call.fts_hits[k].value>>)
                    higher == signal_score(<<call.fts_hits[l].value>>)
                IN  lower.num * higher.den >= higher.num * lower.den

\* ---- the pack lifecycle under interleaving and after a crash -------------
\* The positions of a call between the making of its staging directory and the
\* end of its file copy.
CopyingPcs ==
    {"is_copy", "as_save", "as_copy", "as_manifest", "ad_copy", "ad_ops", "ad_final",
     "adi_save", "adi_copy"}

\* C27 (ACTIVE names a complete install): in every state ACTIVE, once written,
\* names a directory under packs/ that exists and holds the complete payload of a
\* snapshot, and no call is still copying into the directory ACTIVE names.
C27_ActiveNamesCompleteInstall ==
    active # 0 =>
        /\ dirs[active].kind # "none"
        /\ dirs[active].files
              \in {PackInstall(S).files : S \in {Snapshot0, Snapshot1, Snapshot2}}
        /\ \A p \in Procs : proc[p].pc \in CopyingPcs => proc[p].staging # active

\* C28 (a crashed updater does not block later updates): a run_once that follows
\* a completed recover_on_startup is not refused with "Updater lock already held".
C28_CrashedUpdaterDoesNotBlock ==
    \A p \in Procs :
        (hist[p].op = "run_once" /\ hist[p].prev.op = "recover"
           /\ hist[p].prev.result = "ok")
          => hist[p].result # "busy"

\* C29 (an in-flight run_once owns its directories and state.json): while a
\* run_once is in progress state.json holds the state that run_once wrote last,
\* its cache directory and its staging directory exist from their creation to
\* their clean-up, and after its switch ACTIVE names its staging directory.
C29_PrivateToRunOnce ==
    \A p \in InRunOnce :
        /\ StepsUnderTheirState
        /\ proc[p].pc \in (DownloadPcs \ {"ro_download"})
                            \cup {"ro_staging", "ro_verifying", "ro_verify", "ro_applying"}
                            \cup ApplyPcs \cup {"ro_cleanup", "ro_rmcache"}
              => dirs[proc[p].cache].kind # "none"
        /\ proc[p].pc \in (ApplyPcs \ {"ro_apply"}) \cup {"ro_cleanup", "ro_rmcache", "ro_idle"}
              => dirs[proc[p].staging].kind # "none"
        /\ proc[p].pc \in {"ro_cleanup", "ro_rmcache", "ro_idle"}
              => active = proc[p].staging

\* C30 (no leftovers after recovery): when recover_on_startup has run to its end
\* after a run_once that was aborted, every directory under packs/ and packs/cache
\* that was made since that run_once started is the install ACTIVE names.
C30_NoLeftovers ==
    \A p \in Procs :
        (hist[p].op = "recover" /\ hist[p].result = "ok"
           /\ hist[p].prev.op = "run_once" /\ Aborted(hist[p].prev))
          => \A d \in Existing(dirs) \ hist[p].prev.startDirs : d = active

\* C26 (delta correctness): build_delta lists under add_or_replace exactly the
\* paths of the TO manifest that the FROM manifest lacks or has with another
\* sha256, and under delete exactly the paths of the FROM manifest that the TO
\* manifest lacks; apply_delta of that delta on the install of the FROM snapshot
\* returns normally with ACTIVE naming a new install whose files are those of the
\* TO payload, and the install that was active is as it was.
C26_DeltaCorrectness ==
    (call.fn = "build_delta" /\ call.delta_dir # <<>>) =>
        LET fm == call.from_snapshot_dir.manifest.files
            tm == call.to_snapshot_dir.manifest.files
            dm == call.delta_dir[1].dmanifest
        IN  /\ {e.path : e \in dm.add_or_replace}
                  = {e.path : e \in {e \in tm : \/ ~ \E o \in fm : o.path = e.path
                                                \/ \E o \in fm : /\ o.path = e.path
                                                                 /\ o.sha256 # e.sha256}}
            /\ dm.delete = {o.path : o \in {o \in fm : ~ \E e \in tm : e.path = o.path}}
            /\ dirs[1] = PackInstall(call.from_snapshot_dir)
            /\ (hist[1].op = "apply_delta" /\ proc[1].pc = "idle")
                  => /\ hist[1].result = "ok"
                     /\ active # 1
                     /\ dirs[active].files = PackInstall(call.to_snapshot_dir).files

\* C21 (citation invariant): extract_citations returns at least one citation, each
\* with 0 <= start <= end <= len(text) and quote = text[start:end], the single
\* citation ("", 0, 0) for the empty text; and when a query term occurs in the
\* text, letter case apart, the quote holds a whole occurrence of a query term.
C21_CitationInvariant ==
    (call.fn = "extract_citations" /\ call.pc # "called") =>
        LET text == call.chunk_text
            terms == {call.query_terms[k] : k \in 1 .. Len(call.query_terms)}
            Occurs(t, s) == find(str_lower(s), str_lower(t)) >= 0
        IN  /\ call.pc = "returned"
            /\ Len(call.citations) >= 1
            /\ \A k \in 1 .. Len(call.citations) :
                  LET c == call.citations[k]
                  IN  /\ 0 <= c.start /\ c.start <= c.end /\ c.end <= Len(text)
                      /\ c.quote = SubSeq(text, c.start + 1, c.end)
            /\ text = <<>> => call.citations = <<[quote |-> <<>>, start |-> 0, end |-> 0]>>
            /\ (\E t \in terms : Occurs(t, text))
                  => \E t \in terms : Occurs(t, call.citations[1].quote)

\* C22 (run persistence is all or none): a loader that finds the run finds the
\* complete list of hits, with their citations, that hybrid_run was called with.
C22_AllOrNone ==
    (call.fn = "hybrid_run" /\ call.loaded.found)
        => call.loaded.hits = call.given[call.loaded.run_id]

\* C23 (run persistence round trip): once create_run and persist_run_results have
\* returned for a run, load_run_hits returns for its run_id the list of hits that
\* was persisted, in the same order and with the citations of every hit in the same
\* order, whatever other runs are persisted before or after it.
C23_RoundTrip ==
    call.fn = "hybrid_run"
        => /\ \A r \in call.persisted : load_run_hits(call.db, r) = call.given[r]
           /\ (call.loaded.found /\ call.loaded.run_id \in call.loaded.after)
                 => call.loaded.hits = call.given[call.loaded.run_id]

\* Two runs are persisted, both with two hits, the first with a hit whose two
\* citations are in the order Q2b, Q2a, and a loader has read the first run back
\* after the second was persisted.
C23_Witness ==
    /\ call.fn = "hybrid_run"
    /\ call.persisted = {1, 2}
    /\ Len(call.given[1]) = 2 /\ Len(call.given[2]) = 2
    /\ \E i \in 1 .. 2 : call.given[1][i].citations = <<"Q2b", "Q2a">>
    /\ call.loaded.run_id = 1 /\ call.loaded.found /\ call.loaded.after = {1, 2}
    /\ call.loaded.hits = call.given[1]


\* C24: filters are never silently ignored.  Whenever a retrieval operation (fts,
\* vector, hybrid with any use_fts and use_vector) has answered a request, either
\* it failed with an error, or the request carried neither a court nor a tags
\* filter and every hit it returned satisfies every filter of the request.
C24_FiltersNeverIgnored ==
    (call.fn = "retrieve" /\ call.pc = "done" /\ call.result.exc = "ok")
        => /\ call.filters.court = "None"
           /\ call.filters.tags = {}
           /\ \A c \in call.result.hits :
                LET f == call.filters
                    cd == CaseDocuments[c.practice_doc_id]
                IN  /\ f.practice_doc_id # "None" => c.practice_doc_id = f.practice_doc_id
                    /\ f.doc_type # "None" => cd.mime = f.doc_type
                    /\ f.date_from # 0 => cd.created >= f.date_from
                    /\ f.date_to # 0 => cd.created <= f.date_to


\* C25: planner bounds and priority.  For every case frame and every K >= 0 the
\* plan has at most K atoms; no two atoms have the same case-folded,
\* whitespace-collapsed text; the atoms come in the order summary phrase, norm
\* atoms in the order of the input, at most two issue/claim/question phrases,
\* keywords atom; and the plan is the first K atoms of the atoms the call had
\* collected before the cap, which do not depend on K.
C25_PlannerBounds ==
    (call.fn = "build_query_plan" /\ call.pc = "done")
        => LET atoms == call.atoms
               cf == call.case_frame
               uncapped == call.st.atoms
               keys == [i \in 1 .. Len(atoms) |-> str_lower(_collapse_ws(atoms[i].text))]
               group(a) == CASE a.kind = "phrase" /\ a.weight = 14 -> 1
                             [] a.kind = "norm" -> 2
                             [] a.kind = "phrase" -> 3
                             [] OTHER -> 4
               of(g) == {i \in 1 .. Len(atoms) : group(atoms[i]) = g}
               sources == cf.claims \o cf.issues \o cf.questions
               phrase(s) == _quote_phrase(_truncate_phrase(_collapse_ws(s), 160))
               phrases == {phrase(sources[a]) : a \in 1 .. Len(sources)}
           IN  /\ Len(atoms) <= call.k
               /\ \A i, j \in 1 .. Len(atoms) : keys[i] = keys[j] => i = j
               /\ \A i, j \in 1 .. Len(atoms) : i < j => group(atoms[i]) <= group(atoms[j])
               /\ Cardinality(of(1)) <= 1
               /\ \A i \in of(1) : cf.summary.given /\ atoms[i].text = phrase(cf.summary.v)
               /\ \A i, j \in of(2) :
                     i < j => \E a, b \in 1 .. Len(cf.norms.v) :
                                 /\ a < b
                                 /\ atoms[i].text = NormText(cf.norms.v[a])
                                 /\ atoms[j].text = NormText(cf.norms.v[b])
               /\ \A i \in of(2) :
                     \E a \in 1 .. Len(cf.norms.v) : atoms[i].text = NormText(cf.norms.v[a])
               /\ Cardinality(of(3)) <= 2
               /\ \A i \in of(3) : atoms[i].text \in phrases
               /\ Cardinality(of(4)) <= 1
               /\ \A i \in of(4) : cf.keywords.given /\ atoms[i].weight = 10
               /\ atoms = SubSeq(uncapped, 1,
                                 IF call.k < Len(uncapped) THEN call.k ELSE Len(uncapped))

\* A plan capped at three atoms out of more, after a norm in another case and a
\* phrase equal to the summary in capitals were left out: the summary cut to
\* fewer than 160 characters, a norm, and a phrase.
C25_Witness ==
    /\ call.fn = "build_query_plan" /\ call.pc = "done"
    /\ call.k = 3 /\ Len(call.atoms) = 3
    /\ Len(call.st.atoms) > 3
    /\ Len(call.case_frame.norms.v) = 2
    /\ Len(call.case_frame.issues) = 2
    /\ call.atoms[1].kind = "phrase" /\ call.atoms[1].weight = 14
    /\ Len(call.atoms[1].text) > 100 /\ Len(call.atoms[1].text) < 162
    /\ call.atoms[2].text = <<"C", "K", " ", "6", ".", "2">>
    /\ call.atoms[3].kind = "phrase" /\ call.atoms[3].weight = 12
====
